---- MODULE Spec2Model ----
(***************************************************************************)
(* Verification model of brijr/meta-ads-mcp: the OAuth2 callback handler   *)
(* (FacebookOAuthHandler), the external-app HTTP API (auth / accounts /    *)
(* mcp endpoints) and the SessionManager with its in-memory storage        *)
(* adapter and MCP instance map.                                           *)
(*                                                                         *)
(* Time.  Every stored timestamp is kept relative to the current instant:  *)
(* a stored x stands for the instant Date.now() + x.  Date.now() is        *)
(* therefore always Now = 0, `Date.now() + ttl` is Now + ttl, and the      *)
(* passing of one tick lowers every stored timestamp by one.  A timestamp  *)
(* that has fallen below every value it is ever compared with stays at     *)
(* that floor.  One tick is the TTL in force: 10 minutes for the OAuth      *)
(* state store and 7 days for the session store.  An item is still valid   *)
(* exactly one TTL after it was written (the code compares with < and >)   *)
(* and expired one tick later.                                             *)
(***************************************************************************)
EXTENDS Integers, FiniteSets, Sequences, TLC

VARIABLES
  stateStore,     \* FacebookOAuthHandler.stateStore : state -> {userId, timestamp}
  nextState,      \* the next value generateSecureState() returns (fresh each call)
  issued,         \* history: every state generateAuthUrl issued -> {userId, at}
  tokens,         \* MemoryTokenStorage.tokens : userId -> stored TokenData
  cb,             \* the handleCallback invocations, one record per invocation
  memory,         \* SessionManager memory adapter : key -> {value, expiry}
  mcpInstances,   \* SessionManager.mcpInstances : <<sessionId, accountId>> -> instance
  nextSessionId,  \* the next value generateSessionId() returns (fresh each call)
  oauthStates,    \* states issued by UserAuthManager.generateOAuthState
  task,           \* <<sessionId, accountId>> -> number of POST /api/external/mcp
                  \* requests suspended in initialize(), each holding its own new
                  \* AccountScopedMcpServer
  http,           \* the last HTTP response of the external-app API
  headers,        \* the header map of the tool request being served
  toolCall,       \* outcome of the tool run through MetaContext.withClient
  authResult,     \* outcome of XMCPAuthMiddleware.validateAccessToken
  plain,          \* history: userId -> the token data last given to storeToken
                  \* and still held by the storage
  reply,          \* the last result of a TokenManager call or OAuthServer route
  revoking,       \* the users with a POST /auth/revoke waiting for Facebook
  call,           \* the service-layer call in progress
  wire,           \* the Graph API requests the service layer has sent
  args,           \* the arguments of the MCP tool call being served
  envelope,       \* what the ToolFactory wrapper returned for it
  created,        \* the data handed to createCampaign
  updated,        \* the updates handed to updateCampaign
  inflight,       \* the SessionManager calls waiting for the shared store
  boot            \* the MetaMcpServer process: its environment and how far
                  \* main() has come

oauthVars == <<stateStore, nextState, issued, tokens, cb>>
sessionVars == <<memory, mcpInstances, nextSessionId, oauthStates, task, http>>
toolVars == <<headers, toolCall, authResult>>
vars == <<stateStore, nextState, issued, tokens, cb, memory, mcpInstances,
          nextSessionId, oauthStates, task, http, headers, toolCall,
          authResult, plain, reply, revoking, call, wire, args, envelope,
          created, updated, inflight, boot>>
campaignVars == <<args, envelope, created, updated>>
serviceVars == <<call, wire>>
vaultVars == <<plain, reply, revoking>>

\* What each component leaves alone: the variables of the other components.
outsideOAuth == <<boot, inflight, sessionVars, toolVars, vaultVars, serviceVars, campaignVars>>
outsideSession == <<boot, inflight, oauthVars, toolVars, vaultVars, serviceVars, campaignVars>>
outsideTools == <<boot, inflight, oauthVars, sessionVars, vaultVars, serviceVars, campaignVars>>
outsideVault == <<boot, inflight, stateStore, nextState, issued, cb, sessionVars, toolVars,
                  serviceVars, campaignVars>>
outsideService == <<boot, inflight, oauthVars, sessionVars, toolVars, vaultVars, campaignVars>>
outsideCampaign == <<boot, inflight, oauthVars, sessionVars, authResult, vaultVars,
                     serviceVars>>
outsideRace == <<boot, oauthVars, nextSessionId, oauthStates, task, http, toolVars,
                 vaultVars, serviceVars, campaignVars>>
outsideBoot == <<inflight, oauthVars, sessionVars, toolVars, vaultVars, serviceVars,
                 campaignVars>>

(***************************************************************************)
(* Bounds of the model.                                                    *)
(***************************************************************************)
MaxStates == 2        \* generateAuthUrl calls
MaxCallbacks == 2     \* handleCallback invocations
MaxOps == 3           \* SessionManager calls on the shared store
MaxSessions == 1      \* createUserSession calls
MaxPending == 2       \* POST /api/external/mcp requests in flight at once
MaxOAuthStates == 1   \* generateOAuthState calls

(***************************************************************************)
(* Program constants, in ticks.                                            *)
(***************************************************************************)
StateTtl == 1         \* 10 * 60 * 1000 ms
SessionTtl == 1       \* 7 * 24 * 60 * 60 s

\* Date.now(), the origin of the relative timestamps.
Now == 0

UserIds == {"u1", "u2"}
FbTokens == {"tokA"}
ExpiresInValues == {0, 1}     \* expires_in of the token response; 0: absent

\* Map.set / Map.delete on a map held as a function over its present keys.
MapSet(m, k, v) == [x \in DOMAIN m \cup {k} |-> IF x = k THEN v ELSE m[x]]
MapDelete(m, k) == [x \in DOMAIN m \ {k} |-> m[x]]

\* A stored timestamp one tick later; `floor` is the value below which it is
\* no longer told apart.
Elapse(x, floor) == IF x > floor THEN x - 1 ELSE floor

(***************************************************************************)
(* FacebookOAuthHandler                                                    *)
(***************************************************************************)

\* generateAuthUrl: a fresh state is stored with the user and its deadline.
GenerateAuthUrl(userId) ==
  /\ nextState <= MaxStates
  /\ stateStore' = MapSet(stateStore, nextState,
                          [userId |-> userId, timestamp |-> Now + StateTtl])
  /\ issued' = MapSet(issued, nextState, [userId |-> userId, at |-> Now])
  /\ nextState' = nextState + 1
  /\ UNCHANGED <<tokens, cb>>

\* GET /auth/facebook?user_id=...
AuthFacebook == \E userId \in UserIds : GenerateAuthUrl(userId)

\* handleCallback, "Validate state parameter": the state is known and its
\* deadline has not passed.
StateValidMissingExpiry(store, state, t) == state \in DOMAIN store
StateValid(store, state, t) ==
  /\ state \in DOMAIN store
  /\ ~(store[state].timestamp < t)

\* handleCallback, "Remove used state".
RemoveUsedStateMissing(store, state) == store
RemoveUsedState(store, state) == MapDelete(store, state)

\* `requests` lists the requests the invocation has sent to the Graph API.
IdleCallback == [pc |-> "idle", state |-> 0, userId |-> "", token |-> "",
                 expires_in |-> 0, exchanged |-> FALSE, stored |-> FALSE,
                 redirect |-> "none", requests |-> <<>>]

\* handleCallback up to its first await (the fetch of exchangeCodeForToken).
\* code = FALSE / state = 0 stand for a missing query parameter.
CallbackBegin(p, code, state, error) ==
  /\ cb[p].pc = "idle"
  /\ p > 1 => cb[p - 1].pc # "idle"      \* invocations are numbered as they arrive
  /\ IF error \/ ~code \/ state = 0 \/ ~StateValid(stateStore, state, Now)
       THEN /\ cb' = [cb EXCEPT ![p] = [@ EXCEPT !.pc = "done", !.state = state,
                                                 !.redirect = "error"]]
            /\ UNCHANGED stateStore
       ELSE /\ cb' = [cb EXCEPT ![p] = [@ EXCEPT !.pc = "exchange", !.state = state,
                                                 !.userId = stateStore[state].userId,
                                                 !.exchanged = TRUE,
                                                 !.requests = <<"code">>]]
            /\ stateStore' = RemoveUsedState(stateStore, state)
  /\ UNCHANGED <<nextState, issued, tokens>>

\* exchangeCodeForToken: the token endpoint answers; not ok throws, and the
\* catch of handleCallback redirects with an error.
ExchangeReturns(p, ok, token, expiresIn) ==
  /\ cb[p].pc = "exchange"
  /\ IF ok
       THEN cb' = [cb EXCEPT ![p] = [@ EXCEPT !.pc = "userinfo", !.token = token,
                                              !.expires_in = expiresIn,
                                              !.requests = Append(@, "me")]]
       ELSE cb' = [cb EXCEPT ![p] = [@ EXCEPT !.pc = "done", !.redirect = "error"]]
  /\ UNCHANGED <<stateStore, nextState, issued, tokens>>

\* TokenManager.encrypt: the cipher text of a plain text.
Encrypt(text) == <<"enc", text>>

\* A storeToken that stores nothing.
StoreTokenNothing(store, userId, token, expiresIn, t) == store

\* TokenManager.storeToken + MemoryTokenStorage.store.  expires_at is held as
\* a set: empty when undefined.
StoreToken(store, userId, token, expiresIn, t) ==
  MapSet(store, userId,
         [access_token |-> Encrypt(token),
          expires_in |-> expiresIn,
          expires_at |-> IF expiresIn # 0 THEN {t + expiresIn} ELSE {},
          created_at |-> t])

\* getUserInfo answers, the last await of handleCallback that waits for the
\* network: on success the token is stored under stateData.userId and the
\* browser is redirected to the success page (storeToken runs to
\* MemoryTokenStorage.store without waiting for I/O).
UserInfoReturns(p, ok) ==
  /\ cb[p].pc = "userinfo"
  /\ IF ok
       THEN /\ tokens' = StoreToken(tokens, cb[p].userId, cb[p].token,
                                    cb[p].expires_in, Now)
            /\ cb' = [cb EXCEPT ![p] = [@ EXCEPT !.pc = "done", !.stored = TRUE,
                                                 !.redirect = "success",
                                                 !.token = "", !.expires_in = 0]]
       ELSE /\ cb' = [cb EXCEPT ![p] = [@ EXCEPT !.pc = "done", !.redirect = "error",
                                                 !.token = "", !.expires_in = 0]]
            /\ UNCHANGED tokens
  /\ UNCHANGED <<stateStore, nextState, issued>>

\* cleanupExpiredStates, run by the hourly timer.
CleanupExpiredStates ==
  /\ stateStore' = [s \in {x \in DOMAIN stateStore : ~(stateStore[x].timestamp < Now)}
                      |-> stateStore[s]]
  /\ UNCHANGED <<nextState, issued, tokens, cb>>

\* GET /auth/facebook/callback: with ?error=..., without code and state, or
\* with a code and a state (an issued one, or one that is never issued).
HandleCallback ==
  \E p \in 1..MaxCallbacks :
    \/ CallbackBegin(p, FALSE, 0, TRUE)
    \/ CallbackBegin(p, FALSE, 0, FALSE)
    \/ \E state \in 1..(MaxStates + 1) : CallbackBegin(p, TRUE, state, FALSE)
    \/ \E ok \in BOOLEAN, token \in FbTokens, expiresIn \in ExpiresInValues :
         ExchangeReturns(p, ok, token, expiresIn)
    \/ \E ok \in BOOLEAN : UserInfoReturns(p, ok)

InitOAuth ==
  /\ stateStore = <<>>
  /\ nextState = 1
  /\ issued = <<>>
  /\ tokens = <<>>
  /\ cb = [p \in 1..MaxCallbacks |-> IdleCallback]

NoResponse == [status |-> 0, error |-> ""]

InitSession ==
  /\ memory = <<>>
  /\ mcpInstances = <<>>
  /\ nextSessionId = 1
  /\ oauthStates = {}
  /\ task = <<>>
  /\ http = NoResponse

\* The header names the token extractors look at, in lookup order.
HeaderNames == {"authorization", "Authorization", "x-access-token",
                "X-Access-Token", "x-meta-access-token", "X-Meta-Access-Token"}

\* A string is the sequence of its characters; <<>> is the empty string and
\* also stands for an absent header and for null (all of them falsy).
IdleToolCall ==
  [pc |-> "idle", accessToken |-> <<>>, error |-> "", callbackInvoked |-> FALSE,
   apiRequests |-> 0]
NoAuthResult ==
  [pc |-> "idle", extracted |-> <<>>, isValid |-> FALSE, accessToken |-> <<>>,
   userId |-> <<>>, error |-> ""]

NoReply == [op |-> "none"]
\* A SessionManager call that has not begun.  `local` is the object the call
\* holds: empty, or the one copy the store returned.
IdleOp == [pc |-> "idle", kind |-> "", sessionId |-> 0, accountId |-> "",
           local |-> {}, afterRevoke |-> FALSE, result |-> "none"]
\* A process that has not run main() yet, with an environment that holds a
\* token and nothing else.
NotStarted ==
  [accessToken |-> "EAAvalidtoken", autoRefresh |-> FALSE, appId |-> FALSE,
   appSecret |-> FALSE, pc |-> "main", validation |-> "none",
   refresh |-> "none", clientCreated |-> FALSE, toolsRegistered |-> FALSE,
   connected |-> FALSE, exitCode |-> -1]
NoOutcome == [kind |-> "none", success |-> FALSE, data |-> "undefined",
              error |-> "", message |-> ""]
NoArgs == [tool |-> "none", name |-> "undefined", status |-> "", daily_budget |-> 0,
           lifetime_budget |-> 0, budget_optimization |-> "undefined",
           outcome |-> NoOutcome]
NoEnvelope == [text |-> <<>>, isError |-> "undefined"]
IdleCall == [pc |-> "idle", method |-> "", accountId |-> "", result |-> "none",
             rateChecked |-> FALSE, inRetry |-> FALSE, attempt |-> 0]

Init ==
  /\ InitOAuth
  /\ InitSession
  /\ headers = [name \in HeaderNames |-> <<>>]
  /\ toolCall = IdleToolCall
  /\ authResult = NoAuthResult
  /\ plain = <<>>
  /\ reply = NoReply
  /\ revoking = {}
  /\ call = IdleCall
  /\ wire = {}
  /\ args = NoArgs
  /\ envelope = NoEnvelope
  /\ created = {}
  /\ updated = {}
  /\ inflight = [i \in 1..MaxOps |-> IdleOp]
  /\ boot = NotStarted

\* One tick passes for the OAuth handler and the token store.
OAuthTick ==
  /\ stateStore' = [s \in DOMAIN stateStore |->
                      [stateStore[s] EXCEPT !.timestamp = Elapse(@, Now - 1)]]
  /\ issued' = [s \in DOMAIN issued |->
                  [issued[s] EXCEPT !.at = Elapse(@, Now - StateTtl - 1)]]
  /\ tokens' = [u \in DOMAIN tokens |->
                  [tokens[u] EXCEPT
                     !.expires_at = {Elapse(x, Now - 1) : x \in @},
                     !.created_at = Elapse(@, Now - 1)]]
  /\ UNCHANGED <<nextState, cb>>

NextOAuth ==
  \/ OAuthTick /\ UNCHANGED outsideOAuth
  \/ AuthFacebook /\ UNCHANGED outsideOAuth
  \/ HandleCallback /\ UNCHANGED outsideOAuth
  \/ CleanupExpiredStates /\ UNCHANGED outsideOAuth

SpecOAuth == Init /\ [][NextOAuth]_vars

Callbacks == 1..MaxCallbacks

\* C2: a callback passes the state check only with a state that generateAuthUrl
\* issued, that no earlier callback used and that was issued at most StateTtl
\* (10 minutes) ago; and a token is stored only by such a callback, under the
\* userId generateAuthUrl associated with that state.
C2_TokenBoundToInitiatingUser ==
  [][ /\ \A p \in Callbacks :
           (cb[p].pc = "idle" /\ cb'[p].pc = "exchange") =>
             /\ cb'[p].state \in DOMAIN issued
             /\ Now <= issued[cb'[p].state].at + StateTtl
             /\ \A q \in Callbacks \ {p} :
                  ~(cb[q].exchanged /\ cb[q].state = cb'[p].state)
             /\ cb'[p].userId = issued[cb'[p].state].userId
      /\ \A p \in Callbacks :
           (cb'[p].stored /\ ~cb[p].stored) =>
             /\ cb[p].exchanged
             /\ cb[p].state \in DOMAIN issued
             /\ issued[cb[p].state].userId \in DOMAIN tokens'
             /\ \A u \in DOMAIN tokens' \ {issued[cb[p].state].userId} :
                  u \in DOMAIN tokens /\ tokens'[u] = tokens[u]
      /\ (\E u \in DOMAIN tokens' :
             \/ u \notin DOMAIN tokens
             \/ tokens'[u].access_token # tokens[u].access_token
             \/ tokens'[u].expires_in # tokens[u].expires_in
             \/ tokens'[u].created_at > tokens[u].created_at) =>
           \E p \in Callbacks : cb'[p].stored /\ ~cb[p].stored
    ]_vars

\* A token is stored for the user of an issued state while a replay of the same
\* state has been turned away.
C2_Witness ==
  \E p \in Callbacks, q \in Callbacks :
    /\ p # q
    /\ cb[p].stored /\ cb[p].userId \in DOMAIN tokens
    /\ cb[q].state = cb[p].state
    /\ cb[q].pc = "done" /\ ~cb[q].exchanged

\* C3: for every issued state, over all interleavings of the callbacks that
\* carry it, at most one reaches the token exchange and at most one stores a
\* token.
C3_StateSingleUse ==
  \A s \in DOMAIN issued :
    /\ Cardinality({p \in Callbacks : cb[p].state = s /\ cb[p].exchanged}) <= 1
    /\ Cardinality({p \in Callbacks : cb[p].state = s /\ cb[p].stored}) <= 1

\* Two callbacks carry the same issued state: one is suspended in the token
\* exchange, the other arrived meanwhile and was redirected with an error.
C3_Witness ==
  \E p \in Callbacks, q \in Callbacks :
    /\ p < q
    /\ cb[p].state \in DOMAIN issued /\ cb[q].state = cb[p].state
    /\ cb[p].pc \in {"exchange", "userinfo"}
    /\ cb[q].pc = "done" /\ cb[q].redirect = "error"

(***************************************************************************)
(* SessionManager and the external-app API                                 *)
(***************************************************************************)
Accounts == {"act_1", "act_2"}
Codes == {"code_u1", "code_u2", "bad"}

\* UserAuthManager.exchangeCodeForTokens / getMetaUserInfo and
\* MetaApiClient.getAdAccounts, as Meta answers them.  "bad" is a code for
\* which one of the three calls throws.  User u1 manages act_1, user u2 manages
\* no ad account, and act_2 is an account neither of them can access.
CodeValid(code) == code \in {"code_u1", "code_u2"}
AccessTokenOf(code) == IF code = "code_u1" THEN "tok_u1" ELSE "tok_u2"
MetaUserOf(token) == IF token = "tok_u1" THEN "u1" ELSE "u2"
AdAccountsOf(token) == IF token = "tok_u1" THEN {"act_1"} ELSE {}

\* Storage keys: `session:${sessionId}`, `user:${userId}:session`,
\* `account_session:${sessionId}:${accountId}`.
SessionKey(sessionId) == <<"session", sessionId, "">>
UserKey(userId) == <<"user", 0, userId>>
AccountSessionKey(sessionId, accountId) == <<"account_session", sessionId, accountId>>

\* Memory adapter, get: a hit is a present item whose expiry has not passed.
StorageHit(mem, key, t) ==
  /\ key \in DOMAIN mem
  /\ ~(t > mem[key].expiry)

\* Memory adapter, get: an item found expired is deleted.
StorageAfterGet(mem, key, t) ==
  IF key \in DOMAIN mem /\ t > mem[key].expiry THEN MapDelete(mem, key) ELSE mem

\* Memory adapter, set with { ex: 7 days }.
StorageSet(mem, key, value, t) ==
  MapSet(mem, key, [value |-> value, expiry |-> t + SessionTtl])

\* `x.lastUsed = new Date()` on the object the memory adapter returned: the
\* adapter hands out the stored object itself, so the item changes in place.
TouchLastUsed(mem, key, t) ==
  [mem EXCEPT ![key] = [@ EXCEPT !.value = [@ EXCEPT !.lastUsed = t]]]

\* getUserSession / getAccountSession after a hit: lastUsed is updated and the
\* item is written back with a new 7-day expiry.
RefreshItemNoSet(mem, key, t) == TouchLastUsed(mem, key, t)
RefreshItem(mem, key, t) ==
  StorageSet(TouchLastUsed(mem, key, t), key,
             TouchLastUsed(mem, key, t)[key].value, t)

\* getUserSession: the storage after the call; the call returns the session
\* iff StorageHit.
GetUserSession(mem, sessionId, t) ==
  IF StorageHit(mem, SessionKey(sessionId), t)
    THEN RefreshItem(mem, SessionKey(sessionId), t)
    ELSE StorageAfterGet(mem, SessionKey(sessionId), t)

\* getAccountSession: the storage after the call.
GetAccountSession(mem, sessionId, accountId, t) ==
  IF StorageHit(mem, AccountSessionKey(sessionId, accountId), t)
    THEN RefreshItem(mem, AccountSessionKey(sessionId, accountId), t)
    ELSE StorageAfterGet(mem, AccountSessionKey(sessionId, accountId), t)

\* res.status(status).json(...): the status and the `error` of the body.
Respond(status, error) == http' = [status |-> status, error |-> error]

\* POST /api/external/auth.  generateOAuthState issues a fresh state.
HandleAuthStart(redirectUri) ==
  /\ IF ~redirectUri
       THEN /\ Respond(400, "redirectUri is required")
            /\ UNCHANGED oauthStates
       ELSE /\ Cardinality(oauthStates) < MaxOAuthStates
            /\ oauthStates' = oauthStates \cup {Cardinality(oauthStates) + 1}
            /\ Respond(200, "")
  /\ UNCHANGED <<memory, mcpInstances, nextSessionId, task>>

\* createUserSession: the two storage.set calls.
CreateUserSession(mem, sessionId, userId, accessToken, accounts, t) ==
  StorageSet(
    StorageSet(mem, SessionKey(sessionId),
               [sessionId |-> sessionId, userId |-> userId,
                accessToken |-> accessToken, availableAccounts |-> accounts,
                selectedAccountId |-> "", lastUsed |-> t], t),
    UserKey(userId), sessionId, t)

\* GET /api/external/auth?code=...&state=...   code = "" / state = 0 stand for
\* a missing query parameter.
HandleAuthCallback(code, state) ==
  /\ IF code = "" \/ state = 0
       THEN /\ Respond(400, "Missing code or state parameter")
            /\ UNCHANGED <<memory, nextSessionId>>
       ELSE IF ~CodeValid(code)
         THEN /\ Respond(500, "OAuth callback failed")
              /\ UNCHANGED <<memory, nextSessionId>>
         ELSE /\ nextSessionId <= MaxSessions
              /\ memory' = CreateUserSession(memory, nextSessionId,
                                             MetaUserOf(AccessTokenOf(code)),
                                             AccessTokenOf(code),
                                             AdAccountsOf(AccessTokenOf(code)), Now)
              /\ nextSessionId' = nextSessionId + 1
              /\ Respond(200, "")
  /\ UNCHANGED <<mcpInstances, oauthStates, task>>

\* GET /api/external/accounts?sessionId=...
HandleGetAccounts(sessionId) ==
  /\ memory' = IF sessionId = 0 THEN memory ELSE GetUserSession(memory, sessionId, Now)
  /\ IF sessionId = 0
       THEN Respond(400, "sessionId is required")
       ELSE IF StorageHit(memory, SessionKey(sessionId), Now)
         THEN Respond(200, "")
         ELSE Respond(404, "Session not found")
  /\ UNCHANGED <<mcpInstances, nextSessionId, oauthStates, task>>

\* selectAccount, "Verify the account is available to this user".
AccountExistsUnchecked(session, accountId) == TRUE
AccountExists(session, accountId) == accountId \in session.availableAccounts

\* selectAccount after both checks passed: the session is written back with
\* the selected account and the account session is created.
SelectAccountWrites(mem, sessionId, accountId, t) ==
  LET key == SessionKey(sessionId)
      selected == [mem EXCEPT ![key] = [@ EXCEPT !.value =
                     [@ EXCEPT !.selectedAccountId = accountId, !.lastUsed = t]]]
      userSession == selected[key].value
  IN StorageSet(
       StorageSet(selected, key, userSession, t),
       AccountSessionKey(sessionId, accountId),
       [sessionId |-> sessionId, userId |-> userSession.userId,
        accountId |-> accountId, accessToken |-> userSession.accessToken,
        lastUsed |-> t], t)

\* POST /api/external/accounts
HandleSelectAccount(sessionId, accountId) ==
  /\ IF sessionId = 0 \/ accountId = ""
       THEN /\ Respond(400, "sessionId and accountId are required")
            /\ UNCHANGED memory
       ELSE IF ~StorageHit(memory, SessionKey(sessionId), Now)
         THEN /\ Respond(500, "Session not found")
              /\ memory' = GetUserSession(memory, sessionId, Now)
         ELSE IF ~AccountExists(memory[SessionKey(sessionId)].value, accountId)
           THEN /\ Respond(500, "Account not accessible to this user")
                /\ memory' = GetUserSession(memory, sessionId, Now)
           ELSE /\ Respond(200, "")
                /\ memory' = SelectAccountWrites(GetUserSession(memory, sessionId, Now),
                                                 sessionId, accountId, Now)
  /\ UNCHANGED <<mcpInstances, nextSessionId, oauthStates, task>>

InstanceKey(sessionId, accountId) == <<sessionId, accountId>>

\* getOrCreateMcpInstance returns an instance (does not throw): the instance
\* exists, or the account session is found.
GetOrCreateSucceeds(sessionId, accountId) ==
  \/ InstanceKey(sessionId, accountId) \in DOMAIN mcpInstances
  \/ StorageHit(memory, AccountSessionKey(sessionId, accountId), Now)

\* getOrCreateMcpInstance: its effect on the mcpInstances map.  With the memory
\* adapter the method runs without waiting for I/O, so it is one step.
GetOrCreateInstances(sessionId, accountId) ==
  IF /\ InstanceKey(sessionId, accountId) \notin DOMAIN mcpInstances
     /\ StorageHit(memory, AccountSessionKey(sessionId, accountId), Now)
    THEN MapSet(mcpInstances, InstanceKey(sessionId, accountId),
                [sessionId |-> sessionId, accountId |-> accountId, server |-> "null"])
    ELSE mcpInstances

\* getOrCreateMcpInstance: its effect on the storage (getAccountSession is
\* called only when the instance does not exist yet).
GetOrCreateMemory(mem, sessionId, accountId) ==
  IF InstanceKey(sessionId, accountId) \in DOMAIN mcpInstances
    THEN mem
    ELSE GetAccountSession(mem, sessionId, accountId, Now)

\* handleCreateMcpConnection, "Verify account session exists".
AccountSessionFoundUnchecked(mem, sessionId, accountId, t) == TRUE
AccountSessionFound(mem, sessionId, accountId, t) ==
  StorageHit(mem, AccountSessionKey(sessionId, accountId), t)

\* The requests suspended in initialize() for one instance key, and in all.
Pending(key) == IF key \in DOMAIN task THEN task[key] ELSE 0
RECURSIVE SumPending(_)
SumPending(keys) ==
  IF keys = {} THEN 0
  ELSE LET k == CHOOSE x \in keys : TRUE IN task[k] + SumPending(keys \ {k})
InFlight == SumPending(DOMAIN task)

\* POST /api/external/mcp up to `await accountScopedServer.initialize()`, the
\* one await of the handler that waits for the network.
McpCreateBegin(sessionId, accountId) ==
  /\ UNCHANGED <<nextSessionId, oauthStates>>
  /\ IF sessionId = 0 \/ accountId = ""
       THEN /\ Respond(400, "sessionId and accountId are required")
            /\ UNCHANGED <<memory, mcpInstances, task>>
       ELSE IF ~AccountSessionFound(memory, sessionId, accountId, Now)
         THEN /\ Respond(404, "Account session not found. Select an account first.")
              /\ UNCHANGED <<mcpInstances, task>>
              /\ memory' = GetAccountSession(memory, sessionId, accountId, Now)
         ELSE IF ~GetOrCreateSucceeds(sessionId, accountId)
           THEN /\ Respond(500, "Failed to create MCP connection")
                /\ UNCHANGED <<mcpInstances, task>>
                /\ memory' = GetAccountSession(memory, sessionId, accountId, Now)
           ELSE /\ mcpInstances' = GetOrCreateInstances(sessionId, accountId)
                /\ IF mcpInstances'[InstanceKey(sessionId, accountId)].server = "null"
                     THEN /\ InFlight < MaxPending
                          /\ task' = MapSet(task, InstanceKey(sessionId, accountId),
                                            Pending(InstanceKey(sessionId, accountId)) + 1)
                          /\ UNCHANGED http
                     ELSE /\ Respond(200, "")
                          /\ UNCHANGED task
                /\ memory' = GetOrCreateMemory(
                               GetAccountSession(memory, sessionId, accountId, Now),
                               sessionId, accountId)

\* `mcpInstance.server = accountScopedServer` on the instance the handler
\* holds.  An instance leaves the map only in revokeSession, which also deletes
\* the session and its account sessions, so no other instance is ever created
\* for its key: a write to an instance no longer in the map is not observable.
AttachServer(instances, key) ==
  IF key \in DOMAIN instances
    THEN [instances EXCEPT ![key] = [@ EXCEPT !.server = "server"]]
    ELSE instances

\* initialize() returns or throws in one of the suspended requests; on success
\* its server is attached to the instance and the handler answers 200.
McpCreateFinish(key, ok) ==
  /\ Pending(key) > 0
  /\ task' = IF task[key] = 1 THEN MapDelete(task, key)
             ELSE [task EXCEPT ![key] = @ - 1]
  /\ IF ok
       THEN /\ mcpInstances' = AttachServer(mcpInstances, key)
            /\ Respond(200, "")
       ELSE /\ Respond(500, "Failed to create MCP connection")
            /\ UNCHANGED mcpInstances
  /\ UNCHANGED <<memory, nextSessionId, oauthStates>>

\* GET /api/external/mcp?sessionId=...&accountId=...
HandleGetMcpConnection(sessionId, accountId) ==
  /\ IF sessionId = 0 \/ accountId = ""
       THEN /\ Respond(400, "sessionId and accountId are required")
            /\ UNCHANGED <<memory, mcpInstances>>
       ELSE /\ memory' = GetOrCreateMemory(memory, sessionId, accountId)
            /\ mcpInstances' = GetOrCreateInstances(sessionId, accountId)
            /\ IF GetOrCreateSucceeds(sessionId, accountId)
                 THEN Respond(200, "")
                 ELSE Respond(500, "Failed to get MCP connection")
  /\ UNCHANGED <<nextSessionId, oauthStates, task>>

\* revokeSession, "Clean up all related data" and "Clean up account sessions":
\* the storage.del calls.
RevokeStorage(mem, sessionId) ==
  LET userSession == mem[SessionKey(sessionId)].value
      accountKeys == {AccountSessionKey(sessionId, a) : a \in userSession.availableAccounts}
  IN [k \in DOMAIN mem \ ({SessionKey(sessionId), UserKey(userSession.userId)}
                            \cup accountKeys) |-> mem[k]]

\* revokeSession, "Clean up MCP instances".
RevokeInstances(instances, sessionId) ==
  [k \in {x \in DOMAIN instances : instances[x].sessionId # sessionId}
     |-> instances[k]]

\* DELETE /api/external/mcp
HandleRevokeMcpConnection(sessionId) ==
  /\ IF sessionId = 0
       THEN /\ Respond(400, "sessionId is required")
            /\ UNCHANGED <<memory, mcpInstances>>
       ELSE /\ Respond(200, "")
            /\ IF StorageHit(memory, SessionKey(sessionId), Now)
                 THEN /\ memory' = RevokeStorage(GetUserSession(memory, sessionId, Now),
                                                 sessionId)
                      /\ mcpInstances' = RevokeInstances(mcpInstances, sessionId)
                 ELSE /\ memory' = GetUserSession(memory, sessionId, Now)
                      /\ UNCHANGED mcpInstances
  /\ UNCHANGED <<nextSessionId, oauthStates, task>>

\* cleanupExpiredSessions: its body is empty.
CleanupExpiredSessions == UNCHANGED vars

\* One tick passes for the session store.
ElapseItem(key, item) ==
  IF key[1] = "user"
    THEN [item EXCEPT !.expiry = Elapse(@, Now - 1)]
    ELSE [item EXCEPT !.expiry = Elapse(@, Now - 1),
                      !.value = [@ EXCEPT !.lastUsed = Elapse(@, Now - SessionTtl - 1)]]

SessionTick ==
  /\ memory' = [k \in DOMAIN memory |-> ElapseItem(k, memory[k])]
  /\ UNCHANGED <<mcpInstances, nextSessionId, oauthStates, task, http>>

\* The inputs of the endpoints.  sessionId 0, accountId "", code "" and state 0
\* stand for a missing parameter; a request with two parameters is sent with
\* both or without them.  The session ids are the issued ones and the ones not
\* issued yet; the states are the issued ones and one that was never issued.
SessionIds == 1..MaxSessions
SessionIdInputs == 0..MaxSessions

AuthStart == \E redirectUri \in BOOLEAN : HandleAuthStart(redirectUri)
AuthCallback ==
  \/ HandleAuthCallback("", 0)
  \/ \E code \in Codes, state \in 1..(Cardinality(oauthStates) + 1) :
       HandleAuthCallback(code, state)
GetAccounts == \E sessionId \in SessionIdInputs : HandleGetAccounts(sessionId)
SelectAccount ==
  \/ HandleSelectAccount(0, "")
  \/ \E sessionId \in SessionIds, accountId \in Accounts :
       HandleSelectAccount(sessionId, accountId)
CreateMcpConnection ==
  \/ McpCreateBegin(0, "")
  \/ \E sessionId \in SessionIds, accountId \in Accounts :
       McpCreateBegin(sessionId, accountId)
CreateMcpConnectionInitialized ==
  \E key \in DOMAIN task, ok \in BOOLEAN : McpCreateFinish(key, ok)
GetMcpConnection ==
  \/ HandleGetMcpConnection(0, "")
  \/ \E sessionId \in SessionIds, accountId \in Accounts :
       HandleGetMcpConnection(sessionId, accountId)
RevokeMcpConnection == \E sessionId \in SessionIdInputs : HandleRevokeMcpConnection(sessionId)

\* The auth and accounts endpoints.
NextAccounts ==
  \/ SessionTick /\ UNCHANGED outsideSession
  \/ AuthStart /\ UNCHANGED outsideSession
  \/ AuthCallback /\ UNCHANGED outsideSession
  \/ GetAccounts /\ UNCHANGED outsideSession
  \/ SelectAccount /\ UNCHANGED outsideSession
  \/ RevokeMcpConnection /\ UNCHANGED outsideSession

SpecAccounts == Init /\ [][NextAccounts]_vars

\* The auth callback, accounts and mcp endpoints.
Next ==
  \/ SessionTick /\ UNCHANGED outsideSession
  \/ AuthCallback /\ UNCHANGED outsideSession
  \/ GetAccounts /\ UNCHANGED outsideSession
  \/ SelectAccount /\ UNCHANGED outsideSession
  \/ CreateMcpConnection /\ UNCHANGED outsideSession
  \/ CreateMcpConnectionInitialized /\ UNCHANGED outsideSession
  \/ GetMcpConnection /\ UNCHANGED outsideSession
  \/ RevokeMcpConnection /\ UNCHANGED outsideSession
  \/ CleanupExpiredSessions

Spec == Init /\ [][Next]_vars

\* Liveness: time passes, a request suspended in initialize() is answered, and
\* cleanupExpiredSessions runs whenever it has something to do.
SpecLive ==
  /\ Init
  /\ [][Next]_vars
  /\ WF_vars(SessionTick /\ UNCHANGED outsideSession)
  /\ WF_vars(CreateMcpConnectionInitialized /\ UNCHANGED outsideSession)
  /\ WF_vars(CleanupExpiredSessions)

AccountSessionKeys(mem) == {k \in DOMAIN mem : k[1] = "account_session"}

\* C1: a callback creates a user session only when it presents a state that
\* handleAuthStart issued and that is still outstanding.
C1_SessionOnlyForIssuedState ==
  [][ nextSessionId' # nextSessionId =>
        \E code \in Codes, state \in oauthStates : HandleAuthCallback(code, state)
    ]_vars

\* C4: getUserSession (GET /api/external/accounts) returns the session exactly
\* when it is stored and was created or last successfully accessed at most
\* SessionTtl (7 days) ago; a successful getUserSession or selectAccount sets
\* the expiry to SessionTtl from that access; a session that was issued and is
\* no longer returned is never returned again.
C4_SlidingExpiry ==
  [][ \A sessionId \in SessionIds :
        LET key == SessionKey(sessionId) IN
          /\ HandleGetAccounts(sessionId) =>
               /\ (http'.status = 200) <=>
                    /\ key \in DOMAIN memory
                    /\ Now <= memory[key].value.lastUsed + SessionTtl
               /\ http'.status = 200 =>
                    /\ memory'[key].expiry = Now + SessionTtl
                    /\ memory'[key].value.lastUsed = Now
               /\ http'.status # 200 =>
                    /\ http' = [status |-> 404, error |-> "Session not found"]
                    /\ key \notin DOMAIN memory'
          /\ \A accountId \in Accounts :
               (HandleSelectAccount(sessionId, accountId) /\ http'.status = 200) =>
                 /\ Now <= memory[key].value.lastUsed + SessionTtl
                 /\ memory'[key].expiry = Now + SessionTtl
                 /\ memory'[key].value.lastUsed = Now
          /\ (sessionId < nextSessionId /\ ~StorageHit(memory, key, Now)) =>
               ~StorageHit(memory', key, Now)
    ]_vars

\* A session is still returned although more than SessionTtl has passed since
\* its creation: the `user:` key written with it has expired, the session was
\* accessed in between.
C4_Witness ==
  \E sessionId \in SessionIds :
    /\ StorageHit(memory, SessionKey(sessionId), Now)
    /\ UserKey(memory[SessionKey(sessionId)].value.userId) \in DOMAIN memory
    /\ memory[UserKey(memory[SessionKey(sessionId)].value.userId)].value = sessionId
    /\ memory[UserKey(memory[SessionKey(sessionId)].value.userId)].expiry < Now
    /\ http.status = 200

\* C5: selectAccount for a sessionId that is unknown or expired fails with
\* "Session not found"; for an account that is not in the session's
\* availableAccounts it fails with "Account not accessible to this user"; in
\* both cases no account session record is created or changed and the
\* session's selectedAccountId stays as it was.
C5_SelectAccountAuthorizes ==
  [][ \A sessionId \in SessionIds, accountId \in Accounts :
        HandleSelectAccount(sessionId, accountId) =>
          LET key == SessionKey(sessionId) IN
            /\ ~StorageHit(memory, key, Now) =>
                 /\ http'.error = "Session not found"
                 /\ \A k \in AccountSessionKeys(memory') :
                      k \in DOMAIN memory /\ memory'[k] = memory[k]
                 /\ key \notin DOMAIN memory'
            /\ (/\ StorageHit(memory, key, Now)
                /\ accountId \notin memory[key].value.availableAccounts) =>
                 /\ http'.error = "Account not accessible to this user"
                 /\ \A k \in AccountSessionKeys(memory') :
                      k \in DOMAIN memory /\ memory'[k] = memory[k]
                 /\ memory'[key].value.selectedAccountId =
                      memory[key].value.selectedAccountId
    ]_vars

\* A session that has selected act_1 was refused act_2: its selection is still
\* act_1 and there is no account session for act_2.
C5_Witness ==
  \E sessionId \in SessionIds :
    /\ http.error = "Account not accessible to this user"
    /\ StorageHit(memory, SessionKey(sessionId), Now)
    /\ memory[SessionKey(sessionId)].value.selectedAccountId = "act_1"
    /\ AccountSessionKey(sessionId, "act_1") \in DOMAIN memory
    /\ AccountSessionKey(sessionId, "act_2") \notin DOMAIN memory

\* C6: after DELETE /api/external/mcp has answered 200 for a sessionId, no user
\* session and no account session of that session can be read and no MCP
\* instance of that session is in the map.
C6_RevokeCleansEverything ==
  [][ \A sessionId \in SessionIds :
        (HandleRevokeMcpConnection(sessionId) /\ http'.status = 200) =>
          /\ ~StorageHit(memory', SessionKey(sessionId), Now)
          /\ \A accountId \in Accounts :
               ~StorageHit(memory', AccountSessionKey(sessionId, accountId), Now)
          /\ \A k \in DOMAIN mcpInstances' : mcpInstances'[k].sessionId # sessionId
    ]_vars

\* C7: while the session lives, at most one AccountScopedMcpServer exists for a
\* (sessionId, accountId) pair, counting the one attached to the instance and
\* the ones held by the requests suspended in initialize().
C7_OneServerPerPair ==
  \A key \in DOMAIN mcpInstances :
    StorageHit(memory, SessionKey(key[1]), Now) =>
      Pending(key) + (IF mcpInstances[key].server = "server" THEN 1 ELSE 0) <= 1

\* C8: a step adds an MCP instance only for a pair whose account session can be
\* read at that moment; POST /api/external/mcp for a pair whose account session
\* cannot be read answers 404, constructs no server and leaves the MCP
\* instances as they are; the completion of initialize() adds no instance.
C8_McpRequiresAccountSession ==
  [][ /\ \A key \in DOMAIN mcpInstances' \ DOMAIN mcpInstances :
           StorageHit(memory, AccountSessionKey(key[1], key[2]), Now)
      /\ \A sessionId \in SessionIds, accountId \in Accounts :
           (/\ ~StorageHit(memory, AccountSessionKey(sessionId, accountId), Now)
            /\ McpCreateBegin(sessionId, accountId)) =>
             /\ http'.status = 404
             /\ mcpInstances' = mcpInstances
             /\ task' = task
      /\ \A key \in DOMAIN task, ok \in BOOLEAN :
           McpCreateFinish(key, ok) => DOMAIN mcpInstances' = DOMAIN mcpInstances
    ]_vars

\* One pair has its MCP server while a POST for a pair without a readable
\* account session has just been answered 404.
C8_Witness ==
  /\ http = [status |-> 404,
             error |-> "Account session not found. Select an account first."]
  /\ \E key \in DOMAIN mcpInstances : mcpInstances[key].server = "server"

\* C9: handling GET /api/external/mcp adds no entry to the MCP instance map.
C9_GetIsReadOnly ==
  [][ \A sessionId \in SessionIds, accountId \in Accounts :
        HandleGetMcpConnection(sessionId, accountId) =>
          DOMAIN mcpInstances' \subseteq DOMAIN mcpInstances
    ]_vars

\* No record of the session can be read any more.
SessionGone(sessionId) ==
  /\ sessionId < nextSessionId
  /\ ~StorageHit(memory, SessionKey(sessionId), Now)
  /\ \A accountId \in Accounts :
       ~StorageHit(memory, AccountSessionKey(sessionId, accountId), Now)

\* The stored user sessions name a selected account only among their
\* available accounts.
SelectionAvailable ==
  \A k \in DOMAIN memory :
    k[1] = "session" =>
      \/ memory[k].value.selectedAccountId = ""
      \/ memory[k].value.selectedAccountId \in memory[k].value.availableAccounts

\* The account session under key k agrees with the user session of its
\* sessionId: an available account, the same user and access token.
AgreesWithUserSession(k) ==
  LET accountSession == memory[k].value
      userSession == memory[SessionKey(k[2])].value
  IN /\ accountSession.sessionId = k[2]
     /\ accountSession.accountId = k[3]
     /\ accountSession.accountId \in userSession.availableAccounts
     /\ accountSession.userId = userSession.userId
     /\ accountSession.accessToken = userSession.accessToken

\* C26 as stated: a user session's selectedAccountId, when set, is one of
\* its availableAccounts, and every stored account session has the user
\* session with the same sessionId, with its accountId among that session's
\* availableAccounts and with that session's userId and accessToken.
C26_SessionConsistencyAsStated ==
  /\ SelectionAvailable
  /\ \A k \in DOMAIN memory :
       (k[1] = "account_session" /\ StorageHit(memory, k, Now)) =>
         /\ StorageHit(memory, SessionKey(k[2]), Now)
         /\ AgreesWithUserSession(k)

\* C26 amended: ... and every stored account session whose user session is
\* still stored has its accountId among that session's availableAccounts and
\* carries that session's userId and accessToken; an account session can
\* outlive its user session.
C26_SessionConsistency ==
  /\ SelectionAvailable
  /\ \A k \in DOMAIN memory :
       (k[1] = "account_session" /\ SessionKey(k[2]) \in DOMAIN memory) =>
         AgreesWithUserSession(k)

\* A session has selected act_1 and its account session is stored with it.
C26_Witness ==
  \E sessionId \in SessionIds :
    /\ StorageHit(memory, SessionKey(sessionId), Now)
    /\ memory[SessionKey(sessionId)].value.selectedAccountId = "act_1"
    /\ StorageHit(memory, AccountSessionKey(sessionId, "act_1"), Now)

\* C10: an MCP instance of a session none of whose records can be read any
\* more is eventually removed from the map.
C10_ExpiredInstancesRemoved ==
  \A sessionId \in SessionIds, accountId \in Accounts :
    (/\ InstanceKey(sessionId, accountId) \in DOMAIN mcpInstances
     /\ SessionGone(sessionId))
      ~> (InstanceKey(sessionId, accountId) \notin DOMAIN mcpInstances)

(***************************************************************************)
(* Tool layer: MetaContext.withClient and XMCPAuthMiddleware               *)
(***************************************************************************)

\* Header values of the requests: no value, a bare user token, a Bearer app
\* token, a lower-case bearer with two blanks and a short token, the word
\* Bearer followed by one blank only, and a long token with other characters.
HeaderValues ==
  { <<>>,
    <<"E", "A", "A", "t", "o", "k", "e", "n", "0", "1">>,
    <<"B", "e", "a", "r", "e", "r", " ",
      "1", "2", "|", "s", "e", "c", "r", "e", "t", "9">>,
    <<"b", "e", "a", "r", "e", "r", " ", " ", "s", "h", "o", "r", "t">>,
    <<"B", "e", "a", "r", "e", "r", " ">>,
    <<"t", "o", "k", " ", "e", "n", "|", "0", "0", "0", "1">> }

ToLowerCase(c) ==
  CASE c = "A" -> "a" [] c = "B" -> "b" [] c = "E" -> "e" [] OTHER -> c

\* a || b on strings: the first operand unless it is falsy.
OrElse(a, b) == IF a # <<>> THEN a ELSE b

\* authHeader.match(/^Bearer\s+(.+)$/i): group 1 of the match, <<>> when there
\* is no match.  \s+ is greedy but gives back its last blank when nothing
\* else is left for (.+).  The header values hold no line terminator.
BearerMatch(v) ==
  LET word == <<"b", "e", "a", "r", "e", "r">>
      \* the number of whitespace characters of v from position i on
      RECURSIVE WhitespaceRun(_)
      WhitespaceRun(i) ==
        IF i <= Len(v) /\ v[i] = " " THEN 1 + WhitespaceRun(i + 1) ELSE 0
      n == WhitespaceRun(Len(word) + 1)
  IN IF /\ Len(v) >= Len(word) + 2
        /\ \A i \in 1..Len(word) : ToLowerCase(v[i]) = word[i]
        /\ n >= 1
     THEN IF Len(word) + n < Len(v)
          THEN SubSeq(v, Len(word) + n + 1, Len(v))
          ELSE <<v[Len(v)]>>
     ELSE <<>>

\* The Authorization branch shared by both extractors.
FromAuthHeader(authHeader) ==
  IF BearerMatch(authHeader) # <<>> THEN BearerMatch(authHeader) ELSE authHeader

\* MetaContext.extractAccessToken
MetaContextExtractAccessToken(h) ==
  LET authHeader == OrElse(h["authorization"], h["Authorization"])
      accessTokenHeader == OrElse(h["x-access-token"], h["X-Access-Token"])
  IN IF authHeader # <<>> THEN FromAuthHeader(authHeader)
     ELSE IF accessTokenHeader # <<>> THEN accessTokenHeader
     ELSE <<>>

\* XMCPAuthMiddleware.extractAccessToken
MiddlewareExtractAccessToken(h) ==
  LET authHeader == OrElse(h["authorization"], h["Authorization"])
      accessTokenHeader == OrElse(h["x-access-token"], h["X-Access-Token"])
      metaTokenHeader ==
        OrElse(h["x-meta-access-token"], h["X-Meta-Access-Token"])
  IN IF authHeader # <<>> THEN FromAuthHeader(authHeader)
     ELSE IF accessTokenHeader # <<>> THEN accessTokenHeader
     ELSE IF metaTokenHeader # <<>> THEN metaTokenHeader
     ELSE <<>>

\* The format check without its length test.
IsValidTokenFormatAnyLength(token) == token # <<>>

\* XMCPAuthMiddleware.isValidTokenFormat: at least 10 characters and one of
\* /^EAA/, /^\d+\|/, /^[A-Za-z0-9_-]+$/.
IsValidTokenFormat(token) ==
  LET Digits == {"0", "1", "2", "9"}
      Letters == {"A", "B", "E", "a", "b", "c", "e", "h", "k", "n", "o", "r",
                  "s", "t"}
      \* the number of digits of token from position i on
      RECURSIVE DigitRun(_)
      DigitRun(i) ==
        IF i <= Len(token) /\ token[i] \in Digits THEN 1 + DigitRun(i + 1) ELSE 0
  IN /\ token # <<>>
     /\ Len(token) >= 10
     /\ \/ SubSeq(token, 1, 3) = <<"E", "A", "A">>
        \/ /\ DigitRun(1) >= 1
           /\ DigitRun(1) < Len(token)
           /\ token[DigitRun(1) + 1] = "|"
        \/ \A i \in 1..Len(token) :
             token[i] \in Letters \cup Digits \cup {"_", "-"}

\* XMCPAuthMiddleware.extractUserIdFromToken: `user_${Math.abs(hash)}`.  The
\* 32-bit hash is held as two 16-bit halves <<high, low>>.
ExtractUserIdFromToken(token) ==
  LET CharCode(c) ==
        CASE c = " " -> 32 [] c = "-" -> 45 [] c = "0" -> 48 [] c = "1" -> 49
          [] c = "2" -> 50 [] c = "9" -> 57 [] c = "A" -> 65 [] c = "B" -> 66
          [] c = "E" -> 69 [] c = "_" -> 95 [] c = "a" -> 97 [] c = "b" -> 98
          [] c = "c" -> 99 [] c = "e" -> 101 [] c = "h" -> 104 [] c = "k" -> 107
          [] c = "n" -> 110 [] c = "o" -> 111 [] c = "r" -> 114 [] c = "s" -> 115
          [] c = "t" -> 116 [] c = "|" -> 124
      \* ((hash << 5) - hash) + char, truncated to 32 bits
      HashStep(hash, char) ==
        LET low == hash[2] * 31 + char
        IN << (hash[1] * 31 + low \div 65536) % 65536, low % 65536 >>
      RECURSIVE HashFrom(_, _)
      HashFrom(i, hash) ==
        IF i > Len(token) THEN hash
        ELSE HashFrom(i + 1, HashStep(hash, CharCode(token[i])))
      \* Math.abs of the two's complement integer
      AbsInt32(hash) ==
        IF hash[1] < 32768 THEN hash
        ELSE << 65535 - hash[1] + (IF hash[2] = 0 THEN 1 ELSE 0),
                (65536 - hash[2]) % 65536 >>
  IN <<"user_", AbsInt32(HashFrom(1, <<0, 0>>))>>

\* if (!accessToken) in MetaContext.withClient
AccessTokenMissingNever(accessToken) == FALSE
AccessTokenMissing(accessToken) == accessToken = <<>>

\* The get_ad_accounts tool: MetaContext.withClient(headers, callback), the
\* callback sending one request with the client made from the token.
GetAdAccountsTool(apiOk) ==
  /\ toolCall.pc = "idle"
  /\ LET accessToken == MetaContextExtractAccessToken(headers)
     IN toolCall' =
          IF AccessTokenMissing(accessToken)
          THEN [IdleToolCall EXCEPT
                  !.pc = "thrown",
                  !.error = "No access token provided in headers"]
          ELSE [pc |-> IF apiOk THEN "returned" ELSE "thrown",
                accessToken |-> accessToken,
                error |-> IF apiOk THEN "" ELSE "Failed to get ad accounts",
                callbackInvoked |-> TRUE,
                apiRequests |-> 1]
  /\ UNCHANGED <<headers, authResult>>

\* XMCPAuthMiddleware.validateAccessToken
ValidateAccessToken ==
  /\ authResult.pc = "idle"
  /\ LET accessToken == MiddlewareExtractAccessToken(headers)
     IN authResult' =
          IF accessToken = <<>>
          THEN [NoAuthResult EXCEPT
                  !.pc = "done", !.error = "No access token provided"]
          ELSE IF ~IsValidTokenFormat(accessToken)
          THEN [NoAuthResult EXCEPT
                  !.pc = "done", !.extracted = accessToken,
                  !.error = "Invalid access token format"]
          ELSE [pc |-> "done", extracted |-> accessToken, isValid |-> TRUE,
                accessToken |-> accessToken,
                userId |-> ExtractUserIdFromToken(accessToken), error |-> ""]
  /\ UNCHANGED <<headers, toolCall>>

\* The health_check tool: validateAccessToken on the request's headers, then
\* the report as JSON text.  `x || null` is the string null for a falsy x.
HealthCheck ==
  /\ envelope = NoEnvelope
  /\ ValidateAccessToken
  /\ envelope' =
       [text |->
          << <<"success", "true">>,
             <<"status", "healthy">>,
             <<"authentication.authenticated",
               IF authResult'.isValid THEN "true" ELSE "false">>,
             <<"authentication.userId",
               IF authResult'.userId # <<>> THEN authResult'.userId
               ELSE <<"null">> >>,
             <<"authentication.error",
               IF authResult'.error # "" THEN authResult'.error ELSE "null">> >>,
        isError |-> "undefined"]

\* A tool request with any header map is being served.
InitToolRequest ==
  /\ InitOAuth
  /\ InitSession
  /\ headers \in [HeaderNames -> HeaderValues]
  /\ toolCall = IdleToolCall
  /\ authResult = NoAuthResult
  /\ plain = <<>>
  /\ reply = NoReply
  /\ revoking = {}
  /\ call = IdleCall
  /\ wire = {}
  /\ args = NoArgs
  /\ envelope = NoEnvelope
  /\ created = {}
  /\ updated = {}
  /\ inflight = [i \in 1..MaxOps |-> IdleOp]
  /\ boot = NotStarted

NextTools ==
  \/ (\E apiOk \in BOOLEAN : GetAdAccountsTool(apiOk)) /\ UNCHANGED outsideTools
  \/ ValidateAccessToken /\ UNCHANGED outsideTools
  \/ HealthCheck /\ UNCHANGED <<oauthVars, sessionVars, vaultVars, serviceVars,
                                args, created, updated, inflight, boot>>

SpecTools == InitToolRequest /\ [][NextTools]_vars

\* The token the documentation promises for a header map: Authorization
\* first, then X-Access-Token, then X-Meta-Access-Token, a Bearer prefix
\* stripped.
DocumentedToken(h) ==
  LET authHeader == OrElse(h["authorization"], h["Authorization"])
      accessTokenHeader == OrElse(h["x-access-token"], h["X-Access-Token"])
      metaTokenHeader ==
        OrElse(h["x-meta-access-token"], h["X-Meta-Access-Token"])
  IN IF authHeader # <<>> THEN FromAuthHeader(authHeader)
     ELSE OrElse(accessTokenHeader, metaTokenHeader)

\* C11: for every header map the token MetaContext.withClient extracts for a
\* tool call equals the token validateAccessToken extracts, and both are the
\* documented one (Authorization, then X-Access-Token, then
\* X-Meta-Access-Token, Bearer prefix stripped).
C11_SameTokenInThreeFormats ==
  (toolCall.pc # "idle" /\ authResult.pc # "idle") =>
    /\ toolCall.accessToken = authResult.extracted
    /\ toolCall.accessToken = DocumentedToken(headers)

\* No header of the three formats carries a value.
NoAccessTokenInHeaders(h) == \A name \in HeaderNames : h[name] = <<>>

\* C12: a tool call whose headers carry no access token fails with 'No
\* access token provided in headers'; its callback is not invoked and no
\* Meta API request is made.
C12_NoTokenNoApiRequest ==
  (toolCall.pc # "idle" /\ NoAccessTokenInHeaders(headers)) =>
    /\ toolCall.pc = "thrown"
    /\ toolCall.error = "No access token provided in headers"
    /\ ~toolCall.callbackInvoked
    /\ toolCall.apiRequests = 0

C12_Witness ==
  /\ NoAccessTokenInHeaders(headers)
  /\ toolCall.pc = "thrown"
  /\ authResult.pc = "done"

\* C21: validateAccessToken always returns a result; for headers without a
\* token and for a token shorter than 10 characters the result has isValid
\* false and an error text, and health_check then still answers success true
\* with authentication.authenticated false and no error flag.
C21_InvalidTokenStillHealthy ==
  authResult.pc # "idle" =>
    /\ authResult.pc = "done"
    /\ (\/ NoAccessTokenInHeaders(headers)
        \/ Len(MiddlewareExtractAccessToken(headers)) < 10) =>
         /\ ~authResult.isValid
         /\ authResult.error # ""
         /\ authResult.accessToken = <<>>
         /\ envelope # NoEnvelope =>
              /\ envelope.isError = "undefined"
              /\ envelope.text[1] = <<"success", "true">>
              /\ envelope.text[3] = <<"authentication.authenticated", "false">>
              /\ envelope.text[5] = <<"authentication.error", authResult.error>>
    /\ envelope # NoEnvelope =>
         /\ envelope.text[1] = <<"success", "true">>
         /\ envelope.text[3][2] = (IF authResult.isValid THEN "true" ELSE "false")

\* health_check answered a request whose Bearer token is too short.
C21_Witness ==
  /\ envelope # NoEnvelope
  /\ authResult.extracted = <<"s", "h", "o", "r", "t">>
  /\ envelope.text[3] = <<"authentication.authenticated", "false">>


(***************************************************************************)
(* TokenManager over MemoryTokenStorage                                    *)
(*                                                                         *)
(* The cipher is AES-256-CBC with PKCS#7 padding scaled down: a byte is a  *)
(* value in 0..15 written as one hex digit, a block is two bytes, and the  *)
(* block cipher swaps the two bytes and adds the key.  As createCipher     *)
(* does, the chaining starts from a vector derived from the key, not from  *)
(* the random iv that encrypt() writes in front of the cipher text.        *)
(***************************************************************************)

\* Token strings given to storeToken: no, one and two characters (one
\* padding block, one block, one block followed by a padding block).
Plaintexts == { <<>>, <<"a">>, <<"a", "b">> }
\* crypto.randomBytes(16).toString('hex')
Ivs == { <<"0", "7">>, <<"f", "f">> }

HexDigits == <<"0", "1", "2", "3", "4", "5", "6", "7", "8", "9", "a", "b", "c",
               "d", "e", "f">>

\* crypto.scryptSync(this.encryptionKey, 'salt', 32) and the starting vector
\* createCipher derives from it.
CipherKey == [key |-> <<5, 11>>, start |-> <<3, 14>>]

\* cipher.update + cipher.final: CBC over the padded bytes.
RECURSIVE CbcEncrypt(_, _)
CbcEncrypt(bytes, prev) ==
  IF bytes = <<>> THEN <<>>
  ELSE LET mixed == <<(bytes[1] + prev[1]) % 16, (bytes[2] + prev[2]) % 16>>
           block == <<(mixed[2] + CipherKey.key[1]) % 16,
                      (mixed[1] + CipherKey.key[2]) % 16>>
       IN block \o CbcEncrypt(SubSeq(bytes, 3, Len(bytes)), block)

\* decipher.update: CBC backwards over the cipher bytes.
RECURSIVE CbcDecrypt(_, _)
CbcDecrypt(bytes, prev) ==
  IF Len(bytes) < 2 THEN <<>>
  ELSE LET mixed == <<(bytes[2] + 16 - CipherKey.key[2]) % 16,
                      (bytes[1] + 16 - CipherKey.key[1]) % 16>>
           block == <<(mixed[1] + 16 - prev[1]) % 16,
                      (mixed[2] + 16 - prev[2]) % 16>>
       IN block \o CbcDecrypt(SubSeq(bytes, 3, Len(bytes)), SubSeq(bytes, 1, 2))

\* TokenManager.encrypt(text) with the random iv it draws: `${iv}:${encrypted}`
TokenManagerEncrypt(text, iv) ==
  LET utf8 == [i \in 1..Len(text) |-> IF text[i] = "a" THEN 1 ELSE 2]
      pad == 2 - (Len(utf8) % 2)
      padded == utf8 \o [i \in 1..pad |-> pad]
      cipher == CbcEncrypt(padded, CipherKey.start)
  IN iv \o <<":">> \o [i \in 1..Len(cipher) |-> HexDigits[cipher[i] + 1]]

\* TokenManager.decrypt(encryptedText): the text after the first ':' is
\* deciphered, the padding removed and the bytes decoded.  Without a ':' the
\* whole text is taken for the iv and nothing is left to decipher; the
\* decipher throws on that, on an incomplete block and on a wrong padding.
TokenManagerDecrypt(encryptedText) ==
  LET colons == {i \in 1..Len(encryptedText) : encryptedText[i] = ":"}
      colon == IF colons = {} THEN Len(encryptedText)
               ELSE CHOOSE i \in colons : \A j \in colons : i <= j
      encrypted == SubSeq(encryptedText, colon + 1, Len(encryptedText))
      hex == \A i \in 1..Len(encrypted) :
               \E d \in 1..16 : HexDigits[d] = encrypted[i]
      cipher == [i \in 1..Len(encrypted) |->
                   (CHOOSE d \in 1..16 : HexDigits[d] = encrypted[i]) - 1]
      padded == CbcDecrypt(cipher, CipherKey.start)
      pad == padded[Len(padded)]
      utf8 == SubSeq(padded, 1, Len(padded) - pad)
  IN IF \/ ~hex
        \/ Len(encrypted) = 0
        \/ Len(encrypted) % 2 # 0
        \/ pad \notin 1..2
        \/ \E i \in (Len(padded) - pad + 1)..Len(padded) : padded[i] # pad
        \/ \E i \in 1..Len(utf8) : utf8[i] \notin {1, 2}
     THEN <<"bad decrypt">>
     ELSE [i \in 1..Len(utf8) |-> IF utf8[i] = 1 THEN "a" ELSE "b"]

\* The token data callers pass to storeToken: any for u1, one for every
\* other user.
TokenDatas(userId) ==
  IF userId = "u1"
  THEN [access_token : Plaintexts, refresh_token : Plaintexts,
        expires_in : ExpiresInValues]
  ELSE {[access_token |-> <<"a", "b">>, refresh_token |-> <<>>,
         expires_in |-> 1]}

\* What TokenManager.encrypt makes of a token: the mutant stores it as given.
SensitivePlain(text, iv) == text
Sensitive(text, iv) == TokenManagerEncrypt(text, iv)

\* TokenManager.storeToken + MemoryTokenStorage.store; a refresh_token that
\* is absent or empty is stored as undefined (<<>>).
TokenManagerStoreToken(userId, t, iv, refreshIv) ==
  /\ tokens' = MapSet(tokens, userId,
       [access_token |-> Sensitive(t.access_token, iv),
        refresh_token |-> IF t.refresh_token # <<>>
                          THEN Sensitive(t.refresh_token, refreshIv) ELSE <<>>,
        expires_in |-> t.expires_in,
        expires_at |-> IF t.expires_in # 0 THEN {Now + t.expires_in} ELSE {},
        created_at |-> Now])
  /\ plain' = MapSet(plain, userId, t)
  /\ reply' = [op |-> "storeToken", userId |-> userId]
  /\ UNCHANGED revoking

\* TokenManager.getToken
GetToken(userId) ==
  IF userId \notin DOMAIN tokens
  THEN [op |-> "getToken", userId |-> userId, found |-> FALSE, thrown |-> FALSE]
  ELSE LET access == TokenManagerDecrypt(tokens[userId].access_token)
           refresh == IF tokens[userId].refresh_token # <<>>
                      THEN TokenManagerDecrypt(tokens[userId].refresh_token)
                      ELSE <<>>
       IN IF access = <<"bad decrypt">> \/ refresh = <<"bad decrypt">>
          THEN [op |-> "getToken", userId |-> userId, found |-> FALSE,
                thrown |-> TRUE]
          ELSE [op |-> "getToken", userId |-> userId, found |-> TRUE,
                thrown |-> FALSE, access_token |-> access,
                refresh_token |-> refresh,
                expires_at |-> tokens[userId].expires_at]

TokenManagerGetToken(userId) ==
  /\ reply' = GetToken(userId)
  /\ UNCHANGED <<tokens, plain, revoking>>

\* tokenData.expires_at && tokenData.expires_at < Date.now()
TokenExpiredAtDeadline(expiresAt) == \E x \in expiresAt : x <= Now
TokenExpired(expiresAt) == \E x \in expiresAt : x < Now

\* GET /auth/status/:userId: TokenManager.hasValidToken, that is
\* MemoryTokenStorage.isValid, which removes a token it finds expired.
AuthStatus(userId) ==
  /\ UNCHANGED revoking
  /\ IF userId \notin DOMAIN tokens
     THEN /\ reply' = [op |-> "status", userId |-> userId,
                       authenticated |-> FALSE]
          /\ UNCHANGED <<tokens, plain>>
     ELSE IF TokenExpired(tokens[userId].expires_at)
     THEN /\ tokens' = MapDelete(tokens, userId)
          /\ plain' = MapDelete(plain, userId)
          /\ reply' = [op |-> "status", userId |-> userId,
                       authenticated |-> FALSE]
     ELSE /\ reply' = [op |-> "status", userId |-> userId,
                       authenticated |-> TRUE]
          /\ UNCHANGED <<tokens, plain>>

\* Time passes over the stored tokens; the longest expires_in is one tick.
TokenTick ==
  /\ tokens' = [u \in DOMAIN tokens |->
                  [tokens[u] EXCEPT
                     !.expires_at = {Elapse(x, Now - 1) : x \in @},
                     !.created_at = Elapse(@, Now - 2)]]
  /\ tokens' # tokens
  /\ UNCHANGED <<plain, reply, revoking>>

\* POST /auth/revoke/:userId up to the request to Facebook: without a token
\* the route answers right away, with one it sends the DELETE and waits.
\* `facebook` of the answer tells whether the DELETE was sent.
RevokeBegin(userId) ==
  LET tokenData == GetToken(userId)
  IN /\ userId \notin revoking
     /\ IF tokenData.thrown
        THEN /\ reply' = [op |-> "revoke", userId |-> userId, status |-> 500,
                          facebook |-> FALSE]
             /\ UNCHANGED revoking
        ELSE IF ~tokenData.found
        THEN /\ reply' = [op |-> "revoke", userId |-> userId, status |-> 200,
                          facebook |-> FALSE]
             /\ UNCHANGED revoking
        ELSE /\ revoking' = revoking \cup {userId}
             /\ UNCHANGED reply
     /\ UNCHANGED <<tokens, plain>>

\* if (!response.ok) throw, in FacebookOAuthHandler.revokeToken
RevokeFailedIgnored(ok) == FALSE
RevokeFailed(ok) == ~ok

\* Facebook answers the DELETE: on success the token is removed and the
\* route answers success, otherwise revokeToken throws and the route
\* answers 500.
RevokeFinish(userId, ok) ==
  /\ userId \in revoking
  /\ revoking' = revoking \ {userId}
  /\ IF RevokeFailed(ok)
     THEN /\ reply' = [op |-> "revoke", userId |-> userId, status |-> 500,
                       facebook |-> TRUE]
          /\ UNCHANGED <<tokens, plain>>
     ELSE /\ tokens' = MapDelete(tokens, userId)
          /\ plain' = MapDelete(plain, userId)
          /\ reply' = [op |-> "revoke", userId |-> userId, status |-> 200,
                       facebook |-> TRUE]

StoreTokenCall ==
  \E userId \in UserIds, iv \in Ivs, refreshIv \in Ivs :
    \E t \in TokenDatas(userId) :
      /\ t.refresh_token = <<>> => refreshIv = iv
      /\ userId # "u1" => iv = <<"f", "f">>
      /\ TokenManagerStoreToken(userId, t, iv, refreshIv)
GetTokenCall == \E userId \in UserIds : TokenManagerGetToken(userId)
GetAuthStatus == \E userId \in UserIds : AuthStatus(userId)
PostAuthRevoke == \E userId \in UserIds : RevokeBegin(userId)
RevokeTokenReturns ==
  \E userId \in UserIds, ok \in BOOLEAN : RevokeFinish(userId, ok)

NextTokens ==
  \/ TokenTick /\ UNCHANGED outsideVault
  \/ GetAuthStatus /\ UNCHANGED outsideVault
  \/ PostAuthRevoke /\ UNCHANGED outsideVault
  \/ RevokeTokenReturns /\ UNCHANGED outsideVault
  \/ StoreTokenCall /\ UNCHANGED outsideVault
  \/ GetTokenCall /\ UNCHANGED outsideVault

SpecTokens == Init /\ [][NextTokens]_vars

C14_StatusReflectsExpiry ==
  [][ \A userId \in UserIds :
        AuthStatus(userId) =>
          LET stored == userId \in DOMAIN tokens
              live == \/ plain[userId].expires_in = 0
                      \/ tokens[userId].created_at + plain[userId].expires_in
                           >= Now
          IN /\ reply'.authenticated = (stored /\ live)
             /\ (stored /\ ~live) => userId \notin DOMAIN tokens'
             /\ ~(stored /\ ~live) => tokens' = tokens ]_vars

\* An expired token was found by the status check and removed; another
\* user's token is still stored.
C14_Witness ==
  /\ reply.op = "status"
  /\ ~reply.authenticated
  /\ reply.userId \notin DOMAIN tokens
  /\ DOMAIN tokens # {}
  /\ \E u \in DOMAIN tokens : TokenExpired(tokens[u].expires_at)


\* C15: whenever POST /auth/revoke/:userId answers success no token is
\* stored for the user (GET /auth/status then reports authenticated =
\* false); when revoking with Facebook fails the route answers 500 and the
\* stored tokens are left as they are.
C15_RevokeRemovesToken ==
  [][ \A userId \in UserIds :
        /\ (reply'.op = "revoke" /\ revoking' = revoking /\ RevokeBegin(userId)
            /\ reply'.status = 200) => userId \notin DOMAIN tokens'
        /\ \A ok \in BOOLEAN :
             (reply'.op = "revoke" /\ RevokeFinish(userId, ok)) =>
               IF ok THEN reply'.status = 200 /\ userId \notin DOMAIN tokens'
               ELSE reply'.status = 500 /\ tokens' = tokens ]_vars

\* A revocation succeeded for a user who had a token while the other user's
\* token stayed.
C15_Witness ==
  /\ reply.op = "revoke"
  /\ reply.status = 200
  /\ reply.facebook
  /\ reply.userId = "u1"
  /\ "u2" \in DOMAIN tokens
  /\ revoking = {}


\* C16: a callback that stores a token has, after exchanging the code and
\* before storing, sent the long-lived token exchange (grant_type
\* fb_exchange_token) to the Graph API.
C16_LongLivedExchangeAttempted ==
  \A p \in Callbacks :
    cb[p].stored =>
      \E i, j \in 1..Len(cb[p].requests) :
        /\ i < j
        /\ cb[p].requests[i] = "code"
        /\ cb[p].requests[j] = "fb_exchange_token"

\* C23: every handleCallback invocation issues exactly one redirect, the
\* success redirect if and only if it stored a token for the user of its
\* state and the error redirect otherwise; on every error path the token
\* store is left as it was.
C23_OneRedirectPerCallback ==
  /\ [](\A p \in 1..MaxCallbacks :
          /\ cb[p].pc = "done" <=> cb[p].redirect # "none"
          /\ cb[p].redirect = "success" <=> cb[p].stored)
  /\ [][\A p \in 1..MaxCallbacks :
          /\ cb[p].redirect # "none" => cb'[p].redirect = cb[p].redirect
          /\ (cb[p].redirect = "none" /\ cb'[p].redirect = "success") =>
               /\ cb[p].state \in DOMAIN issued
               /\ issued[cb[p].state].userId \in DOMAIN tokens'
               /\ tokens'[issued[cb[p].state].userId].access_token
                    = Encrypt(cb[p].token)
          /\ (cb[p].redirect = "none" /\ cb'[p].redirect = "error") =>
               tokens' = tokens]_vars

\* One invocation has stored a token and redirected to the success page,
\* another has redirected with an error after its token exchange failed.
C23_Witness ==
  \E p, q \in 1..MaxCallbacks :
    /\ cb[p].redirect = "success" /\ cb[p].userId \in DOMAIN tokens
    /\ cb[q].redirect = "error" /\ cb[q].exchanged


(***************************************************************************)
(* Service layer: BaseApiClient.makeRequest and the services built on it   *)
(***************************************************************************)

MaxAttempts == 2      \* tries of one operation inside retryWithBackoff

\* The service methods: whether the method hands an account id to
\* makeRequest, whether it is a write call, and whether it goes through
\* makeRequest at all.
ServiceMethods ==
  { [name |-> "getCampaigns", account |-> TRUE, write |-> FALSE, direct |-> FALSE],
    [name |-> "getCampaign", account |-> FALSE, write |-> FALSE, direct |-> FALSE],
    [name |-> "createCampaign", account |-> TRUE, write |-> TRUE, direct |-> FALSE],
    [name |-> "updateCampaign", account |-> FALSE, write |-> TRUE, direct |-> FALSE],
    [name |-> "deleteCampaign", account |-> FALSE, write |-> TRUE, direct |-> FALSE],
    [name |-> "uploadImageFromUrl", account |-> TRUE, write |-> TRUE,
     direct |-> TRUE] }

\* The request as it goes out: with or without a rate-limit check before it,
\* inside or outside retryWithBackoff.
Sent(c) == [method |-> c.method, accountId |-> c.accountId,
            rateChecked |-> c.rateChecked, inRetry |-> c.inRetry]

\* if (accountId) await globalRateLimiter.checkRateLimit(accountId, isWriteCall)
HasAccountId(accountId) == accountId # ""

\* A service method is called.  Through makeRequest: the rate limiter is
\* asked when an account id was passed (it lets the call pass or throws),
\* then the first try is sent inside retryWithBackoff.  uploadImageFromUrl:
\* the image is downloaded and then posted to the Graph API with fetch.
ServiceCall(m, accountId, allowed, downloaded) ==
  /\ call.pc = "idle"
  /\ IF m.direct
     THEN IF ~downloaded
          THEN /\ call' = [IdleCall EXCEPT !.method = m.name,
                                           !.accountId = accountId,
                                           !.result = "thrown"]
               /\ UNCHANGED wire
          ELSE /\ call' = [IdleCall EXCEPT !.pc = "fetching", !.method = m.name,
                                           !.accountId = accountId,
                                           !.attempt = 1]
               /\ wire' = wire \cup {Sent(call')}
     ELSE LET passed == IF m.account THEN accountId ELSE ""
          IN IF HasAccountId(passed) /\ ~allowed
             THEN /\ call' = [IdleCall EXCEPT !.method = m.name,
                                              !.accountId = passed,
                                              !.rateChecked = TRUE,
                                              !.result = "thrown"]
                  /\ UNCHANGED wire
             ELSE /\ call' = [pc |-> "fetching", method |-> m.name,
                              accountId |-> passed, result |-> "none",
                              rateChecked |-> HasAccountId(passed),
                              inRetry |-> TRUE, attempt |-> 1]
                  /\ wire' = wire \cup {Sent(call')}

\* The Graph API answers: a result, an error worth another try, or an error
\* that is not.  Only retryWithBackoff tries again.
ServiceResponse(outcome) ==
  /\ call.pc = "fetching"
  /\ IF outcome = "retryable" /\ call.inRetry /\ call.attempt < MaxAttempts
     THEN /\ call' = [call EXCEPT !.attempt = @ + 1]
          /\ wire' = wire \cup {Sent(call')}
     ELSE /\ call' = [call EXCEPT !.pc = "idle",
                        !.result = IF outcome = "ok" THEN "returned" ELSE "thrown"]
          /\ UNCHANGED wire

NextService ==
  \/ (\E m \in ServiceMethods, accountId \in Accounts,
         allowed \in BOOLEAN, downloaded \in BOOLEAN :
        ServiceCall(m, accountId, allowed, downloaded))
       /\ UNCHANGED outsideService
  \/ (\E outcome \in {"ok", "retryable", "fatal"} : ServiceResponse(outcome))
       /\ UNCHANGED outsideService

SpecService == Init /\ [][NextService]_vars

\* C17: every Graph API request of the service layer is preceded by a
\* globalRateLimiter.checkRateLimit call for it and runs inside
\* retryWithBackoff.
C17_RateLimitedAndRetried ==
  \A request \in wire : request.rateChecked /\ request.inRetry


(***************************************************************************)
(* MCP tools: ToolFactory.registerTool and the two create_campaign tools   *)
(*                                                                         *)
(* An optional argument that was not passed is "" (status), 0 (a budget)   *)
(* or "undefined"; the first two are the falsy values the handlers test.   *)
(***************************************************************************)

\* What a tool handler does: it returns a ToolResponse or it throws, an
\* Error with a message or some other value.
HandlerOutcomes ==
  [kind : {"returned"}, success : {TRUE}, data : {"undefined", "rows"},
   error : {""}, message : {"", "done"}]
  \cup [kind : {"returned"}, success : {FALSE}, data : {"undefined"},
        error : {"", "bad input"}, message : {""}]
  \cup [kind : {"thrown"}, success : {FALSE}, data : {"undefined"},
        error : {"boom", "not an Error"}, message : {""}]

\* The tool calls: create_campaign of the xmcp tool and of the ToolFactory
\* tool with any arguments, and a ToolFactory tool with any handler outcome.
ToolCalls ==
  [tool : {"xmcp", "factory"}, name : {"campaign"},
   status : {"", "ACTIVE", "PAUSED"},
   daily_budget : {0, 100}, lifetime_budget : {0, 100},
   budget_optimization : {"undefined", "true", "false"}, outcome : {NoOutcome}]
  \cup [tool : {"update"}, name : {"undefined", "", "renamed"},
        status : {"", "ACTIVE", "PAUSED"},
        daily_budget : {0, 100}, lifetime_budget : {0, 100},
        budget_optimization : {"undefined"}, outcome : {NoOutcome}]
  \cup {[NoArgs EXCEPT !.tool = "generic", !.outcome = o] : o \in HandlerOutcomes}

\* status || "PAUSED"
StatusOrActive(status) == IF status # "" THEN status ELSE "ACTIVE"
StatusOrDefault(status) == IF status # "" THEN status ELSE "PAUSED"

\* The object both create_campaign handlers build for createCampaign, as a
\* function over the keys it has.
CampaignData(a) ==
  LET keys == {"name", "objective", "status"}
                \cup (IF a.daily_budget # 0 THEN {"daily_budget"} ELSE {})
                \cup (IF a.lifetime_budget # 0 THEN {"lifetime_budget"} ELSE {})
                \cup (IF a.budget_optimization # "undefined"
                      THEN {"is_budget_optimization_enabled"} ELSE {})
  IN [k \in keys |->
        CASE k = "name" -> "campaign"
          [] k = "objective" -> "OUTCOME_TRAFFIC"
          [] k = "status" -> StatusOrDefault(a.status)
          [] k = "daily_budget" -> a.daily_budget
          [] k = "lifetime_budget" -> a.lifetime_budget
          [] k = "is_budget_optimization_enabled" -> a.budget_optimization]

\* The handler of the ToolFactory create_campaign tool: the budget checks,
\* then createCampaign, which returns or throws.
CreateCampaignHandler(a, apiOk) ==
  IF a.daily_budget # 0 /\ a.lifetime_budget # 0
  THEN [NoOutcome EXCEPT !.kind = "returned",
                         !.error = "Cannot specify both budgets"]
  ELSE IF a.daily_budget = 0 /\ a.lifetime_budget = 0
  THEN [NoOutcome EXCEPT !.kind = "returned",
                         !.error = "Must specify a budget"]
  ELSE IF ~apiOk
  THEN [NoOutcome EXCEPT !.kind = "thrown", !.error = "Failed to create campaign"]
  ELSE [kind |-> "returned", success |-> TRUE, data |-> "created", error |-> "",
        message |-> "Campaign created successfully"]

\* The updates object the update_campaign handler builds: a key for every
\* argument that is truthy (a string that is neither missing nor empty, a
\* budget that is given), as a function over the keys it has.
Updates(a) ==
  LET keys == (IF a.name \notin {"undefined", ""} THEN {"name"} ELSE {})
                \cup (IF a.status # "" THEN {"status"} ELSE {})
                \cup (IF a.daily_budget # 0 THEN {"daily_budget"} ELSE {})
                \cup (IF a.lifetime_budget # 0 THEN {"lifetime_budget"} ELSE {})
  IN [k \in keys |->
        CASE k = "name" -> a.name
          [] k = "status" -> a.status
          [] k = "daily_budget" -> a.daily_budget
          [] k = "lifetime_budget" -> a.lifetime_budget]

\* if (daily_budget && lifetime_budget) in both handlers; the mutant lets
\* update_campaign through with both.
BothBudgetsNever(a) == FALSE
BothBudgets(a) == a.daily_budget # 0 /\ a.lifetime_budget # 0

\* The handler of the ToolFactory update_campaign tool: the budget check,
\* then updateCampaign, which returns or throws.
UpdateCampaignHandler(a, apiOk) ==
  IF BothBudgets(a)
  THEN [NoOutcome EXCEPT !.kind = "returned",
                         !.error = "Cannot specify both budgets"]
  ELSE IF ~apiOk
  THEN [NoOutcome EXCEPT !.kind = "thrown", !.error = "Failed to update campaign"]
  ELSE [kind |-> "returned", success |-> TRUE, data |-> "updated", error |-> "",
        message |-> "Campaign updated successfully"]

\* JSON.stringify(response): the properties in order, without those whose
\* value is undefined.
Stringify(response) ==
  LET present == SelectSeq(response, LAMBDA kv : kv[2] # "undefined")
  IN [i \in 1..Len(present) |-> present[i]]

\* result.success in the wrapper registerTool installs; the mutant takes
\* every returned result for a success.
ResultSucceededAlways(outcome) == TRUE
ResultSucceeded(outcome) == outcome.success

\* The callback ToolFactory.registerTool installs, applied to what the
\* handler did: formatSuccessResponse or formatErrorResponse.
ToolFactoryWrapper(outcome) ==
  IF outcome.kind = "returned" /\ ResultSucceeded(outcome)
  THEN [text |-> Stringify(<< <<"success", "true">>, <<"data", outcome.data>> >>
                           \o (IF outcome.message # ""
                               THEN << <<"message", outcome.message>> >>
                               ELSE <<>>)),
        isError |-> "undefined"]
  ELSE LET error ==
             IF outcome.kind = "thrown"
             THEN IF outcome.error = "not an Error"
                  THEN "Unknown error occurred" ELSE outcome.error
             ELSE IF outcome.error # "" THEN outcome.error
                  ELSE "Unknown error occurred"
       IN [text |-> Stringify(<< <<"success", "false">>, <<"error", error>> >>),
           isError |-> "true"]

\* The tool call is served.  xmcp: MetaContext.withClient and, with a token,
\* createCampaign.  ToolFactory: the handler inside the wrapper.
RunTool(apiOk) ==
  /\ args.tool # "none"
  /\ toolCall.pc = "idle"
  /\ envelope = NoEnvelope
  /\ IF args.tool = "xmcp"
     THEN LET accessToken == MetaContextExtractAccessToken(headers)
          IN /\ toolCall' =
                  IF AccessTokenMissing(accessToken)
                  THEN [IdleToolCall EXCEPT
                          !.pc = "thrown",
                          !.error = "No access token provided in headers"]
                  ELSE [pc |-> IF apiOk THEN "returned" ELSE "thrown",
                        accessToken |-> accessToken,
                        error |-> IF apiOk THEN "" ELSE "Failed to create campaign",
                        callbackInvoked |-> TRUE,
                        apiRequests |-> 1]
             /\ created' = IF AccessTokenMissing(accessToken) THEN created
                           ELSE created \cup {CampaignData(args)}
             /\ UNCHANGED <<envelope, updated>>
     ELSE LET outcome == IF args.tool = "factory"
                         THEN CreateCampaignHandler(args, apiOk)
                         ELSE IF args.tool = "update"
                         THEN UpdateCampaignHandler(args, apiOk)
                         ELSE args.outcome
          IN /\ envelope' = ToolFactoryWrapper(outcome)
             /\ updated' = IF args.tool = "update" /\ ~BothBudgets(args)
                           THEN updated \cup {Updates(args)} ELSE updated
             /\ created' =
                  IF /\ args.tool = "factory"
                     /\ (args.daily_budget = 0) # (args.lifetime_budget = 0)
                  THEN created \cup {CampaignData(args)} ELSE created
             /\ UNCHANGED toolCall
  /\ UNCHANGED <<args, headers>>

\* A tool call with any arguments is being served; the xmcp tool gets it
\* with or without a Bearer token.
InitToolCall ==
  /\ InitOAuth
  /\ InitSession
  /\ args \in ToolCalls
  /\ headers \in
       { [name \in HeaderNames |-> <<>>],
         [name \in HeaderNames |->
            IF name = "authorization"
            THEN <<"B", "e", "a", "r", "e", "r", " ", "E", "A", "A">>
            ELSE <<>>] }
  /\ args.tool # "xmcp" => headers = [name \in HeaderNames |-> <<>>]
  /\ toolCall = IdleToolCall
  /\ authResult = NoAuthResult
  /\ plain = <<>>
  /\ reply = NoReply
  /\ revoking = {}
  /\ call = IdleCall
  /\ wire = {}
  /\ envelope = NoEnvelope
  /\ created = {}
  /\ updated = {}
  /\ inflight = [i \in 1..MaxOps |-> IdleOp]
  /\ boot = NotStarted

NextCampaign ==
  \/ (\E apiOk \in BOOLEAN : RunTool(apiOk)) /\ UNCHANGED outsideCampaign

SpecCampaign == InitToolCall /\ [][NextCampaign]_vars

\* What the handler of the tool call did, read off the arguments.
HandlerFailed(a) ==
  \/ a.tool = "generic" /\ (a.outcome.kind = "thrown" \/ ~a.outcome.success)
  \/ a.tool = "factory" /\ (a.daily_budget = 0) = (a.lifetime_budget = 0)
  \/ a.tool = "update" /\ a.daily_budget # 0 /\ a.lifetime_budget # 0

\* C18: the wrapper of a ToolFactory tool always returns a response: the
\* error envelope (isError = true, success false and an error text) when the
\* handler returned success = false or threw, the success envelope (success
\* true and the data, no isError) when it returned success = true.
C18_ToolResponseEnvelope ==
  (args.tool \in {"generic", "factory"} /\ envelope # NoEnvelope) =>
    /\ HandlerFailed(args) =>
         /\ envelope.isError = "true"
         /\ Len(envelope.text) = 2
         /\ envelope.text[1] = <<"success", "false">>
         /\ envelope.text[2][1] = "error" /\ envelope.text[2][2] # ""
    /\ (args.tool = "generic" /\ ~HandlerFailed(args)) =>
         /\ envelope.isError = "undefined"
         /\ envelope.text[1] = <<"success", "true">>
         /\ args.outcome.data # "undefined" =>
              envelope.text[2] = <<"data", args.outcome.data>>
         /\ \A i \in 1..Len(envelope.text) : envelope.text[i][1] # "error"
    /\ envelope.isError = "true" \/ envelope.text[1] = <<"success", "true">>
    /\ envelope.isError = "true" <=> envelope.text[1] = <<"success", "false">>

C18_Witness ==
  /\ args.tool = "generic"
  /\ args.outcome.kind = "thrown"
  /\ envelope.isError = "true"

\* C19: a create_campaign call that omits status hands createCampaign data
\* with status PAUSED, in the xmcp tool and in the ToolFactory tool alike;
\* status ACTIVE is sent only when the caller passed it.
C19_PausedByDefault ==
  \A data \in created :
    /\ args.status = "" => data["status"] = "PAUSED"
    /\ data["status"] = "ACTIVE" => args.status = "ACTIVE"

C19_Witness ==
  /\ args.tool = "factory"
  /\ args.status = ""
  /\ created # {}
  /\ envelope.isError = "undefined"

\* The arguments the caller of update_campaign supplied, and those supplied
\* with a value that is not the empty string.
SuppliedFields(a) ==
  (IF a.name # "undefined" THEN {"name"} ELSE {})
    \cup (IF a.status # "" THEN {"status"} ELSE {})
    \cup (IF a.daily_budget # 0 THEN {"daily_budget"} ELSE {})
    \cup (IF a.lifetime_budget # 0 THEN {"lifetime_budget"} ELSE {})
NonEmptyFields(a) == SuppliedFields(a) \ (IF a.name = "" THEN {"name"} ELSE {})

\* Both tools answered a call with a wrong budget combination by the error
\* envelope and without an API call; create_campaign sent one createCampaign
\* otherwise.
BudgetsValidated ==
  /\ args.tool = "factory" =>
       IF (args.daily_budget = 0) = (args.lifetime_budget = 0)
       THEN envelope.isError = "true" /\ created = {}
       ELSE Cardinality(created) = 1
  /\ (args.tool = "update" /\ args.daily_budget # 0 /\ args.lifetime_budget # 0) =>
       envelope.isError = "true" /\ updated = {}

\* C22 as stated: create_campaign answers with an error envelope and calls
\* no createCampaign unless exactly one budget is given; update_campaign
\* answers with an error envelope and calls no updateCampaign when both are
\* given, and otherwise sends exactly the fields the caller supplied.
C22_BudgetValidationAsStated ==
  (args.tool \in {"factory", "update"} /\ envelope # NoEnvelope) =>
    /\ BudgetsValidated
    /\ (args.tool = "update" /\ ~(args.daily_budget # 0 /\ args.lifetime_budget # 0)) =>
         \E u \in updated :
           /\ updated = {u}
           /\ DOMAIN u = SuppliedFields(args)
           /\ \A k \in DOMAIN u : u[k] = args[k]

\* C22 amended: ... and otherwise update_campaign sends exactly the supplied
\* fields whose value is not empty; a field supplied as the empty string is
\* left out.
C22_BudgetValidation ==
  (args.tool \in {"factory", "update"} /\ envelope # NoEnvelope) =>
    /\ BudgetsValidated
    /\ (args.tool = "update" /\ ~(args.daily_budget # 0 /\ args.lifetime_budget # 0)) =>
         \E u \in updated :
           /\ updated = {u}
           /\ DOMAIN u = NonEmptyFields(args)
           /\ \A k \in DOMAIN u : u[k] = args[k]

\* update_campaign was called with an empty name and a daily budget: the
\* budget alone is sent.
C22_Witness ==
  /\ args.tool = "update"
  /\ args.name = ""
  /\ envelope.isError = "undefined"
  /\ updated = {[k \in {"daily_budget"} |-> 100]}


(***************************************************************************)
(* MetaMcpServer start-up: main(), initialize(), start()                   *)
(***************************************************************************)

\* process.exit(code)
Exit(b, code) == [b EXCEPT !.pc = "exited", !.exitCode = code]

\* initializeApiClient, registerToolsAndResources and start() up to
\* server.connect(transport): no await in between.
ClientToolsConnect(b) ==
  [b EXCEPT !.pc = "connecting", !.clientCreated = TRUE,
            !.toolsRegistered = TRUE]

\* main() up to the first await: AuthManager.fromEnvironment() throws on a
\* missing or too short token, otherwise validateToken asks Facebook.
InitializeAuth ==
  /\ boot.pc = "main"
  /\ boot' = IF boot.accessToken = "" \/ Len(boot.accessToken) < 10
             THEN Exit([boot EXCEPT !.validation = "failed"], 1)
             ELSE [boot EXCEPT !.pc = "validating"]

\* if (!isValid) throw, in AuthManager.refreshTokenIfNeeded
TokenRejectedIgnored(answer) == FALSE
TokenRejected(answer) == answer # "ok"

\* validateToken returns: response.ok, not ok, or the fetch failed.  A token
\* that is not valid makes refreshTokenIfNeeded throw and initializeAuth
\* exit; a valid one is refreshed when auto-refresh is configured.
ValidateTokenReturns(answer) ==
  /\ boot.pc = "validating"
  /\ boot' =
       LET b == [boot EXCEPT !.validation = IF answer = "ok" THEN "ok" ELSE "failed"]
       IN IF TokenRejected(answer) THEN Exit(b, 1)
          ELSE IF boot.autoRefresh /\ boot.appId /\ boot.appSecret
          THEN [b EXCEPT !.pc = "refreshing"]
          ELSE ClientToolsConnect(b)

\* attemptTokenRefresh returns or throws; a failure is logged and ignored.
TokenRefreshReturns(ok) ==
  /\ boot.pc = "refreshing"
  /\ boot' = ClientToolsConnect(
               [boot EXCEPT !.refresh = IF ok THEN "ok" ELSE "failed"])

\* server.connect(transport) returns or throws.
ConnectReturns(ok) ==
  /\ boot.pc = "connecting"
  /\ boot' = IF ok THEN [boot EXCEPT !.pc = "running", !.connected = TRUE]
             ELSE Exit(boot, 1)

\* SIGINT or SIGTERM while the process waits: shutdown() exits with 0.
Shutdown ==
  /\ boot.pc \in {"validating", "refreshing", "connecting", "running"}
  /\ boot' = Exit(boot, 0)

\* The process starts in any environment.
InitBoot ==
  /\ InitOAuth
  /\ InitSession
  /\ headers = [name \in HeaderNames |-> <<>>]
  /\ toolCall = IdleToolCall
  /\ authResult = NoAuthResult
  /\ plain = <<>>
  /\ reply = NoReply
  /\ revoking = {}
  /\ call = IdleCall
  /\ wire = {}
  /\ args = NoArgs
  /\ envelope = NoEnvelope
  /\ created = {}
  /\ updated = {}
  /\ inflight = [i \in 1..MaxOps |-> IdleOp]
  /\ \E accessToken \in {"", "short", "EAAvalidtoken"},
        autoRefresh \in BOOLEAN, appId \in BOOLEAN, appSecret \in BOOLEAN :
       boot = [NotStarted EXCEPT !.accessToken = accessToken,
                                 !.autoRefresh = autoRefresh,
                                 !.appId = appId, !.appSecret = appSecret]

NextBoot ==
  \/ InitializeAuth /\ UNCHANGED outsideBoot
  \/ (\E answer \in {"ok", "rejected", "error"} : ValidateTokenReturns(answer))
       /\ UNCHANGED outsideBoot
  \/ (\E ok \in BOOLEAN : TokenRefreshReturns(ok)) /\ UNCHANGED outsideBoot
  \/ (\E ok \in BOOLEAN : ConnectReturns(ok)) /\ UNCHANGED outsideBoot
  \/ Shutdown /\ UNCHANGED outsideBoot

SpecBoot == InitBoot /\ [][NextBoot]_vars

CallBegins(i, kind, sessionId, accountId) ==
  /\ inflight[i].pc = "idle"
  /\ i > 1 => inflight[i - 1].pc # "idle"    \* calls are numbered as they begin
  /\ inflight' =
       [inflight EXCEPT ![i] =
          [IdleOp EXCEPT
             !.pc = "get", !.kind = kind, !.sessionId = sessionId,
             !.accountId = accountId,
             !.afterRevoke =
               \E j \in 1..MaxOps : /\ inflight[j].kind = "revokeSession"
                                    /\ inflight[j].sessionId = sessionId
                                    /\ inflight[j].pc = "done"]]
  /\ UNCHANGED <<memory, mcpInstances>>

\* The key a call reads first.
FirstKey(op) ==
  IF op.kind = "getAccountSession"
  THEN AccountSessionKey(op.sessionId, op.accountId)
  ELSE SessionKey(op.sessionId)

\* `await this.storage.get(...)` returns: null ends getUserSession and
\* getAccountSession with null, selectAccount with "Session not found" and
\* revokeSession with nothing done; a copy gets lastUsed set and is sent back
\* with storage.set.
StorageGetReturns(i) ==
  LET op == inflight[i] IN
  /\ op.pc = "get"
  /\ inflight' =
       [inflight EXCEPT ![i] =
          IF ~StorageHit(memory, FirstKey(op), Now)
          THEN [op EXCEPT !.pc = "done",
                          !.result = CASE op.kind = "selectAccount" -> "thrown"
                                       [] op.kind = "revokeSession" -> "void"
                                       [] OTHER -> "null"]
          ELSE [op EXCEPT !.pc = "set",
                          !.local = {[memory[FirstKey(op)].value
                                        EXCEPT !.lastUsed = Now]}]]
  /\ UNCHANGED <<memory, mcpInstances>>

\* The storage.set of getUserSession / getAccountSession returns: the call
\* returns its copy; selectAccount checks the account and sends the session
\* with the selection, revokeSession sends its first del.
StorageSetReturns(i) ==
  LET op == inflight[i]
      local == CHOOSE x \in op.local : TRUE
  IN
  /\ op.pc = "set"
  /\ memory' = StorageSet(memory, FirstKey(op), local, Now)
  /\ inflight' =
       [inflight EXCEPT ![i] =
          CASE op.kind = "selectAccount" ->
                 IF ~AccountExists(local, op.accountId)
                 THEN [op EXCEPT !.pc = "done", !.result = "thrown"]
                 ELSE [op EXCEPT !.pc = "setSession",
                                 !.local = {[local EXCEPT
                                               !.selectedAccountId = op.accountId]}]
            [] op.kind = "revokeSession" -> [op EXCEPT !.pc = "delSession"]
            [] OTHER -> [op EXCEPT !.pc = "done", !.result = "found"]]
  /\ UNCHANGED mcpInstances

\* selectAccount: the storage.set of the session with the selection, then
\* the storage.set of the account session, then the return.
SelectAccountStores(i) ==
  LET op == inflight[i]
      local == CHOOSE x \in op.local : TRUE
  IN
  /\ op.pc \in {"setSession", "setAccount"}
  /\ IF op.pc = "setSession"
     THEN /\ memory' = StorageSet(memory, SessionKey(op.sessionId), local, Now)
          /\ inflight' = [inflight EXCEPT ![i] = [op EXCEPT !.pc = "setAccount"]]
     ELSE /\ memory' = StorageSet(memory,
                                  AccountSessionKey(op.sessionId, op.accountId),
                                  [sessionId |-> op.sessionId,
                                   userId |-> local.userId,
                                   accountId |-> op.accountId,
                                   accessToken |-> local.accessToken,
                                   lastUsed |-> Now], Now)
          /\ inflight' = [inflight EXCEPT ![i] =
                            [op EXCEPT !.pc = "done", !.result = "ok"]]
  /\ UNCHANGED mcpInstances

\* revokeSession: the storage.del of the session, of the user key and of the
\* account sessions of the copy's availableAccounts (one account here, one
\* del), then the MCP instances of the session leave the map.
RevokeSessionDeletes(i) ==
  LET op == inflight[i]
      local == CHOOSE x \in op.local : TRUE
  IN
  /\ op.pc \in {"delSession", "delUser", "delAccount"}
  /\ memory' =
       CASE op.pc = "delSession" -> MapDelete(memory, SessionKey(op.sessionId))
         [] op.pc = "delUser" -> MapDelete(memory, UserKey(local.userId))
         [] op.pc = "delAccount" ->
              [k \in DOMAIN memory \
                 {AccountSessionKey(op.sessionId, a) : a \in local.availableAccounts}
                 |-> memory[k]]
  /\ inflight' =
       [inflight EXCEPT ![i] =
          CASE op.pc = "delSession" -> [op EXCEPT !.pc = "delUser"]
            [] op.pc = "delUser" -> [op EXCEPT !.pc = "delAccount"]
            [] op.pc = "delAccount" -> [op EXCEPT !.pc = "done", !.result = "void"]]
  /\ mcpInstances' = IF op.pc = "delAccount"
                     THEN RevokeInstances(mcpInstances, op.sessionId)
                     ELSE mcpInstances

\* One session of user u1 is stored, with or without act_1 selected.
InitRace ==
  /\ InitOAuth
  /\ mcpInstances = <<>>
  /\ nextSessionId = 2
  /\ oauthStates = {}
  /\ task = <<>>
  /\ http = NoResponse
  /\ \E selected \in BOOLEAN :
       memory =
         LET mem == CreateUserSession(<<>>, 1, MetaUserOf("tok_u1"), "tok_u1",
                                      AdAccountsOf("tok_u1"), Now)
         IN IF selected THEN SelectAccountWrites(mem, 1, "act_1", Now) ELSE mem
  /\ headers = [name \in HeaderNames |-> <<>>]
  /\ toolCall = IdleToolCall
  /\ authResult = NoAuthResult
  /\ plain = <<>>
  /\ reply = NoReply
  /\ revoking = {}
  /\ call = IdleCall
  /\ wire = {}
  /\ args = NoArgs
  /\ envelope = NoEnvelope
  /\ created = {}
  /\ updated = {}
  /\ inflight = [i \in 1..MaxOps |-> IdleOp]
  /\ boot = NotStarted

NextRace ==
  \/ (\E i \in 1..MaxOps, sessionId \in 1..(nextSessionId - 1) :
        \/ CallBegins(i, "getUserSession", sessionId, "")
        \/ CallBegins(i, "revokeSession", sessionId, "")
        \/ \E accountId \in Accounts :
             \/ CallBegins(i, "selectAccount", sessionId, accountId)
             \/ CallBegins(i, "getAccountSession", sessionId, accountId))
       /\ UNCHANGED outsideRace
  \/ (\E i \in 1..MaxOps : StorageGetReturns(i)) /\ UNCHANGED outsideRace
  \/ (\E i \in 1..MaxOps : StorageSetReturns(i)) /\ UNCHANGED outsideRace
  \/ (\E i \in 1..MaxOps : SelectAccountStores(i)) /\ UNCHANGED outsideRace
  \/ (\E i \in 1..MaxOps : RevokeSessionDeletes(i)) /\ UNCHANGED outsideRace

SpecRace == InitRace /\ [][NextRace]_vars

\* C24: once the one revokeSession(sessionId) call has completed, every
\* getUserSession and getAccountSession call on that session that begins
\* afterwards returns null, whatever getUserSession, getAccountSession and
\* selectAccount calls were in flight during the revocation.
C24_RevokedStaysRevoked ==
  \A i \in 1..MaxOps :
    (/\ Cardinality({j \in 1..MaxOps : inflight[j].kind = "revokeSession"}) = 1
     /\ inflight[i].kind \in {"getUserSession", "getAccountSession"}
     /\ inflight[i].afterRevoke
     /\ inflight[i].pc = "done") => inflight[i].result = "null"

\* C25: with only getUserSession and selectAccount calls on a session, once
\* a selectAccount has returned successfully and none is under way, the
\* stored user session has the selected account as its selectedAccountId.
C25_SelectionNotLost ==
  \A i \in 1..MaxOps :
    (/\ \A j \in 1..MaxOps :
          /\ inflight[j].kind \in {"", "getUserSession", "selectAccount"}
          /\ inflight[j].kind = "selectAccount" => inflight[j].pc = "done"
     /\ inflight[i].kind = "selectAccount"
     /\ inflight[i].result = "ok") =>
      /\ SessionKey(inflight[i].sessionId) \in DOMAIN memory
      /\ memory[SessionKey(inflight[i].sessionId)].value.selectedAccountId
           = inflight[i].accountId

====
